---- MODULE Spec2Model ----
(***************************************************************************)
(* Verification model of the TypeDoc -> VitePress documentation renderer   *)
(* of sunrise-ui (packages/typedoc-vitepress-plugin): SlugGenerator,       *)
(* CommentParser, SidebarGenerator and the VitePressRenderer run life      *)
(* cycle; of the activity monitor and the interval Timer of                *)
(* packages/utils; and of CustomPagination of packages/ui.                 *)
(*                                                                         *)
(* Strings are sequences of one-character strings.  Characters outside     *)
(* ASCII are written by their code point: "U+00E9" is the precomposed      *)
(* e-acute, "U+00C9" its upper case, "U+0301" the combining acute accent   *)
(* and "U+51FD" a CJK ideograph.                                           *)
(***************************************************************************)
EXTENDS Integers, Sequences, FiniteSets, TLC

VARIABLES
    slugName,   \* SlugGenerator: the name handed to generateSlug
    slugOut,    \* SlugGenerator: the value generateSlug returned
    slugPc,     \* SlugGenerator: "ready", "done" after the call, "again"
                \* after a call with the slug the first call returned
    sbChildren,     \* SidebarGenerator: project.children of one run
    sbPermuted,     \* SidebarGenerator: the same nodes in another order
    sbOut,          \* SidebarGenerator: generate's result for sbChildren
    sbOutPermuted,  \* SidebarGenerator: generate's result for sbPermuted
    sbPc,           \* SidebarGenerator: "ready" or "done"
    grpChildren,    \* module groups: project.children of one run
    grpPermuted,    \* module groups: the same nodes in another order
    grpOut,         \* module groups: key, file name and text per group, grpChildren
    grpOutPermuted, \* module groups: key, file name and text per group, grpPermuted
    grpPc,          \* module groups: "ready" or "done"
    incremental,    \* VitePressRenderer.incremental
    processedFiles, \* VitePressRenderer.processedFiles
    dirExists,      \* file system: whether outputDir exists
    files,          \* file system: file name -> content, the files of outputDir
    sidebarFile,    \* file system: content of ../.vitepress/sidebar.json
    project,        \* the ProjectReflection of the current renderProject call
    groups,         \* renderProject: the Map "children", entries in insertion order
    gi,             \* renderProject: index of the next entry of the Map to render
    pc,             \* renderProject: the await the call is suspended at
    result,         \* renderProject: "none", "resolved" or "rejected"
    pruneList,      \* cleanupUnusedFiles: markdownFiles not yet looked at
    run,            \* history: "none", "first" or "second" call of renderProject
    log,            \* history: the file-system calls of this run, in order
    written,        \* history: names of the group files written in this run
    deleted,        \* history: names of the files unlinked in this run
    preFiles,       \* history: files when this run started
    prevProject,    \* history: project of the previous run
    prevFiles,      \* history: files when the previous run ended
    prevLog,        \* history: log of the previous run
    monTimeout,          \* activity monitor: config.timeout
    monTimer,            \* activity monitor: timer, 0 for null
    monIsActive,         \* activity monitor: isActive
    monStartTime,        \* activity monitor: startTime
    monLastActivityTime, \* activity monitor: lastActivityTime
    monNow,              \* window: Date.now() and the clock of the timers
    monPending,          \* window: the timeouts set and neither run nor cleared
    monNextId,           \* window: the id the next setTimeout returns
    onTimeoutCalls,      \* number of calls of config.onTimeout
    onActivityCalls,     \* number of calls of config.onActivity
    onStartCalls,        \* number of calls of config.onStart
    onStopCalls,         \* number of calls of config.onStop
    monLastOp,           \* history: the last call on the monitor or "timeout"
    monPhase,            \* history: "new", "running", "paused", "stopped", "expired"
    tmrIntervalId,       \* Timer.intervalId, 0 for null
    tmrIntervals,        \* window: the intervals set and not cleared
    tmrNextId,           \* window: the id the next setInterval returns
    tmrNow,              \* window: the clock of the intervals
    tmrCalls,            \* number of calls of each callback handed to start
    tmrStopped,          \* history: stop() was the last call on the Timer
    tmrRestarted,        \* history: start() was called on a running Timer
    prsReflection,       \* the DeclarationReflection given to CommentParser
    prsOp,               \* the CommentParser method that was called
    prsOut,              \* what the call returned or threw
    prsPc,               \* "off", "ready" or "done"
    pgTotalPages,        \* CustomPagination: the totalPages prop
    pgCurrentPage,       \* CustomPagination: the currentPage prop
    pgVisiblePages,      \* CustomPagination: visiblePages of the last render
    pgLastClick          \* history: the control clicked last

slugVars == <<slugName, slugOut, slugPc>>

sbVars == <<sbChildren, sbPermuted, sbOut, sbOutPermuted, sbPc>>

grpVars == <<grpChildren, grpPermuted, grpOut, grpOutPermuted, grpPc>>

monVars ==
    <<monTimeout, monTimer, monIsActive, monStartTime, monLastActivityTime, monNow,
      monPending, monNextId, onTimeoutCalls, onActivityCalls, onStartCalls,
      onStopCalls, monLastOp, monPhase>>

tmrVars ==
    <<tmrIntervalId, tmrIntervals, tmrNextId, tmrNow, tmrCalls, tmrStopped,
      tmrRestarted>>

utilVars == <<monVars, tmrVars>>

prsVars == <<prsReflection, prsOp, prsOut, prsPc>>

pgVars == <<pgTotalPages, pgCurrentPage, pgVisiblePages, pgLastClick>>

compVars == <<prsVars, pgVars>>

nonRenderVars == <<slugVars, sbVars, grpVars, utilVars, compVars>>

fsVars == <<dirExists, files, sidebarFile>>

renderVars ==
    <<fsVars,
      incremental, processedFiles, project, groups, gi, pc, result, pruneList,
      run, log, written, deleted, preFiles, prevProject, prevFiles, prevLog>>

vars == <<slugVars, sbVars, grpVars, renderVars, utilVars, compVars>>

-----------------------------------------------------------------------------
(* Bounds of the model *)

\* most call signatures of the reflection handed to CommentParser
MaxSignatures == 2

\* the largest totalPages of CustomPagination
MaxPages == 14

\* longest name enumerated character by character
MaxNameLen == 3

\* longest head and tail put around a long run of one character
MaxAffixLen == 1

\* most nodes in the project handed to SidebarGenerator.generate
MaxSidebarNodes == 3

\* most nodes in the project handed to VitePressRenderer.renderProject
MaxNodes == 3

\* last millisecond of the clocks of the activity monitor and of the Timer
MaxTime == 6

\* longest timeout of the activity monitor
MaxTimeout == 2

\* most timers one activity monitor sets
MaxTimers == 3

\* most calls of Timer.start
MaxStarts == 3

\* longest interval handed to Timer.start
MaxInterval == 2

-----------------------------------------------------------------------------
(* Characters and strings *)

LowerLetters ==
    {"a", "b", "c", "d", "e", "f", "g", "h", "i", "j", "k", "l", "m",
     "n", "o", "p", "q", "r", "s", "t", "u", "v", "w", "x", "y", "z"}

UpperLetters == {"A", "B", "E", "Z"}

Digits == {"0", "1", "2", "3", "4", "5", "6", "7", "8", "9"}

HexChars == Digits \cup {"a", "b", "c", "d", "e", "f"}

Whitespace == {" "}

CombiningMarks == {"U+0301"}

\* the characters names are built from
NameChars == {"a", "B", "7", "-", " ", "@", "U+00E9", "U+0301", "U+51FD"}

Prefix(s, n) == SubSeq(s, 1, IF Len(s) < n THEN Len(s) ELSE n)

\* String.prototype.normalize("NFD"): character by character, the string
\* taken in halves
RECURSIVE normalizeNFD(_)
normalizeNFD(s) ==
    IF s = <<>> THEN <<>>
    ELSE IF Len(s) = 1
    THEN CASE s[1] = "U+00E9" -> <<"e", "U+0301">>
           [] s[1] = "U+00C9" -> <<"E", "U+0301">>
           [] OTHER -> s
    ELSE LET half == Len(s) \div 2
         IN  normalizeNFD(SubSeq(s, 1, half))
               \o normalizeNFD(SubSeq(s, half + 1, Len(s)))

\* String.prototype.toLowerCase, character by character
toLowerCase(s) ==
    LET LowerChar(c) ==
            CASE c = "A" -> "a"
              [] c = "B" -> "b"
              [] c = "E" -> "e"
              [] c = "Z" -> "z"
              [] c = "U+00C9" -> "U+00E9"
              [] OTHER -> c
    IN  [i \in 1..Len(s) |-> LowerChar(s[i])]

\* /[\u0300-\u036f]/g replaced by ""
stripMarks(s) == SelectSeq(s, LAMBDA c : c \notin CombiningMarks)

\* /\s+/g replaced by "-"
spacesToHyphen(s) ==
    LET \* of a run of whitespace the last character stands for the run
        last(i) == ~(s[i] \in Whitespace /\ i < Len(s) /\ s[i + 1] \in Whitespace)
        at == SelectSeq([i \in 1..Len(s) |-> i], last)
    IN  [k \in 1..Len(at) |-> IF s[at[k]] \in Whitespace THEN "-" ELSE s[at[k]]]

\* /-+/g replaced by "-"
collapseHyphens(s) ==
    LET \* of a run of hyphens the last one stands for the run
        last(i) == ~(s[i] = "-" /\ i < Len(s) /\ s[i + 1] = "-")
        at == SelectSeq([i \in 1..Len(s) |-> i], last)
    IN  [k \in 1..Len(at) |-> s[at[k]]]

\* /^-|-$/g replaced by ""
trimHyphens(s) ==
    LET t == IF s # <<>> /\ Head(s) = "-" THEN Tail(s) ELSE s
    IN  IF t # <<>> /\ t[Len(t)] = "-" THEN SubSeq(t, 1, Len(t) - 1) ELSE t

-----------------------------------------------------------------------------
(* SlugGenerator *)

MAX_LENGTH == 50

MIN_HASH_LENGTH == 8

\* the test /[^a-z0-9]/, which takes the hyphen for an unsafe character
HasUnsafeChar_Hyphen(s) ==
    \E i \in 1..Len(s) : s[i] \notin LowerLetters \cup Digits

\* /[^a-z0-9-]/.test(s)
HasUnsafeChar(s) ==
    \E i \in 1..Len(s) : s[i] \notin LowerLetters \cup Digits \cup {"-"}

toBasicLatin(str) ==
    LET kept(c) == c \in LowerLetters \cup Digits \cup Whitespace \cup {"-"}
    IN  trimHyphens(collapseHyphens(spacesToHyphen(
            SelectSeq(toLowerCase(stripMarks(normalizeNFD(str))), kept))))

\* extractValidPrefix without the toLowerCase
extractValidPrefix_NoLower(name) ==
    LET alnum(c) == c \in LowerLetters \cup UpperLetters \cup Digits
    IN  Prefix(SelectSeq(stripMarks(normalizeNFD(name)), alnum), 10)

extractValidPrefix(name) ==
    LET alnum(c) == c \in LowerLetters \cup UpperLetters \cup Digits
    IN  toLowerCase(Prefix(SelectSeq(stripMarks(normalizeNFD(name)), alnum), 10))

HexDigit(n) ==
    <<"0", "1", "2", "3", "4", "5", "6", "7",
      "8", "9", "a", "b", "c", "d", "e", "f">>[n + 1]

Hex4(n) ==
    <<HexDigit(n \div 4096), HexDigit((n \div 256) % 16),
      HexDigit((n \div 16) % 16), HexDigit(n % 16)>>

\* the characters are mixed in from left to right, the string taken in
\* halves; the test of left has TLC compute it before the right half
RECURSIVE Mix(_, _, _)
Mix(s, h, m) ==
    IF s = <<>> THEN h
    ELSE IF Len(s) = 1
    THEN LET c == s[1]
             \* the code unit fed to the digest for one character
             CharCode ==
                 CASE c = "a" -> 97
                   [] c = "B" -> 66
                   [] c = "7" -> 55
                   [] c = "-" -> 45
                   [] c = " " -> 32
                   [] c = "@" -> 64
                   [] c = "U+00E9" -> 233
                   [] c = "U+0301" -> 769
                   [] c = "U+51FD" -> 20989
                   [] OTHER -> 1
         IN  (h * m + CharCode) % 65536
    ELSE LET half == Len(s) \div 2
             left == Mix(SubSeq(s, 1, half), h, m)
         IN  IF left >= 0 THEN Mix(SubSeq(s, half + 1, Len(s)), left, m) ELSE 0

\* crypto.createHash("md5").update(name).digest("hex"): a fixed function of
\* the name into hexadecimal digits; the digest itself is the platform's
digestHex(name) == Hex4(Mix(name, 7, 31)) \o Hex4(Mix(name, 11, 17))
                     \o Hex4(Mix(name, 13, 29))

\* generateHashedSlug joining prefix and hash whatever the prefix
generateHashedSlug_AlwaysHyphen(name) ==
    LET hash == Prefix(digestHex(name), MIN_HASH_LENGTH)
        prefix == extractValidPrefix(name)
    IN  prefix \o <<"-">> \o hash

generateHashedSlug(name) ==
    LET hash == Prefix(digestHex(name), MIN_HASH_LENGTH)
        prefix == extractValidPrefix(name)
    IN  IF prefix # <<>> THEN prefix \o <<"-">> \o hash ELSE hash

Unknown == <<"u", "n", "k", "n", "o", "w", "n">>

\* generateSlug comparing the length with >= in place of >
generateSlug_OffByOne(name) ==
    IF name = <<>> THEN Unknown
    ELSE LET basicSlug == toBasicLatin(name)
         IN  IF basicSlug = <<>> \/ Len(basicSlug) >= MAX_LENGTH
                \/ HasUnsafeChar(basicSlug)
             THEN generateHashedSlug(name)
             ELSE basicSlug

generateSlug(name) ==
    IF name = <<>> THEN Unknown
    ELSE LET basicSlug == toBasicLatin(name)
         IN  IF basicSlug = <<>> \/ Len(basicSlug) > MAX_LENGTH
                \/ HasUnsafeChar(basicSlug)
             THEN generateHashedSlug(name)
             ELSE basicSlug

-----------------------------------------------------------------------------
(* Documentation nodes (DeclarationReflection)                             *)
(*                                                                         *)
(* A node is a record: name (a string), kind, and what CommentParser reads *)
(* off its comments: module (the "@memberof" value split at "/", <<>> when *)
(* getModule returns null), category and moduleTag (<<>> for null, <<v>>   *)
(* for a value), func (the "@func" text, <<>> when absent) and example     *)
(* (whether the comment has an "@example" block tag).                      *)

\* ReflectionKind, the values of typedoc's enumeration
ReflectionKind ==
    [Variable |-> 32, Function |-> 64, Class |-> 128, Interface |-> 256,
     TypeAlias |-> 2097152]

Node(name, kind, module, category, moduleTag, func, example) ==
    [name |-> name, kind |-> kind, module |-> module, category |-> category,
     moduleTag |-> moduleTag, func |-> func, example |-> example]

\* CommentParser.getModule(reflection): the "@memberof" module path
getModule(reflection) == reflection.module

\* CommentParser.getModule(reflection, "@func"): the item description
getFuncDescription(reflection) == reflection.func

\* CommentParser.getCategory(reflection): the "@category" text or null
getCategory(reflection) == reflection.category

\* CommentParser.getModuleTag(reflection): the "@module" text or null
getModuleTag(reflection) == reflection.moduleTag

\* a || b on optional values
OrElse(a, b) == IF a # <<>> THEN a ELSE b

\* the order of String.prototype.localeCompare on characters
CollationRank(c) ==
    CASE c = " " -> 1
      [] c = "-" -> 2
      [] c = "@" -> 3
      [] c = "U+0301" -> 4
      [] c = "7" -> 10
      [] c \in {"a", "A"} -> 20
      [] c \in {"b", "B"} -> 21
      [] c \in {"e", "E"} -> 24
      [] c = "U+51FD" -> 90
      [] OTHER -> 50

\* case breaks a tie between otherwise equal letters, lower case first
CaseRank(c) == IF c \in UpperLetters THEN 1 ELSE 0

RECURSIVE LexCompare(_, _, _)
LexCompare(a, b, byCase) ==
    IF a = <<>> /\ b = <<>> THEN 0
    ELSE IF a = <<>> THEN 0 - 1
    ELSE IF b = <<>> THEN 1
    ELSE LET ra == IF byCase THEN CaseRank(Head(a)) ELSE CollationRank(Head(a))
             rb == IF byCase THEN CaseRank(Head(b)) ELSE CollationRank(Head(b))
         IN  IF ra < rb THEN 0 - 1
             ELSE IF ra > rb THEN 1
             ELSE LexCompare(Tail(a), Tail(b), byCase)

\* a.localeCompare(b): canonically equivalent strings compare equal
localeCompare(a, b) ==
    LET na == normalizeNFD(a)
        nb == normalizeNFD(b)
        primary == LexCompare(na, nb, FALSE)
    IN  IF primary # 0 THEN primary ELSE LexCompare(na, nb, TRUE)

-----------------------------------------------------------------------------
(* SidebarGenerator *)

\* kindMap[key] || key
kindMapName(key) ==
    CASE key = "browser" -> "liu-lan-qi"
      [] key = "util" -> "gong-ju"
      [] key = "common" -> "tong-yong"
      [] OTHER -> key

\* Array.prototype.sort() on keys: the keys of the model in code-unit order
sortKeys(keys) ==
    LET KeysInOrder ==
            <<"Global", "Network", "Utilities", "browser", "common", "dom", "http">>
    IN  SelectSeq(KeysInOrder, LAMBDA k : k \in keys)

\* getModule(reflection)?.split("/")[0] || "Global"
moduleNameOf(reflection) ==
    IF getModule(reflection) # <<>> THEN getModule(reflection)[1] ELSE "Global"

\* category || moduleName, the primary grouping key
groupKeyOf(reflection) ==
    OrElse(getCategory(reflection), <<moduleNameOf(reflection)>>)[1]

\* getModuleTag(reflection) || moduleName
moduleTagOf(reflection) ==
    OrElse(getModuleTag(reflection), <<moduleNameOf(reflection)>>)[1]

\* shouldIncludeInSidebar without the test of the kind
shouldIncludeInSidebar_Always(reflection) == TRUE

\* SidebarGenerator.shouldIncludeInSidebar(reflection)
shouldIncludeInSidebar(reflection) ==
    IF reflection.kind \in {"Interface", "TypeAlias"}
    THEN reflection.example
    ELSE TRUE

\* name.toLowerCase().replace(/[^a-z0-9]/g, "-") behind "/docs/"
getLink(reflection) ==
    LET dash(c) == IF c \in LowerLetters \cup Digits THEN c ELSE "-"
        lower == toLowerCase(reflection.name)
    IN  <<"/", "d", "o", "c", "s", "/">> \o [i \in 1..Len(lower) |-> dash(lower[i])]

sidebarItem(reflection) ==
    [name |-> reflection.name,
     description |-> OrElse(getFuncDescription(reflection), reflection.name),
     link |-> getLink(reflection)]

\* items.sort((a, b) => a.name.localeCompare(b.name)) left out
sortItemsByName_Unsorted(items) == items

\* items.sort((a, b) => a.name.localeCompare(b.name)): a stable sort
RECURSIVE sortItemsByName(_)
sortItemsByName(items) ==
    IF items = <<>> THEN <<>>
    ELSE LET init == sortItemsByName(SubSeq(items, 1, Len(items) - 1))
             x == items[Len(items)]
             \* x goes behind every item that does not compare greater
             k == Cardinality({i \in 1..Len(init) :
                                  localeCompare(init[i].name, x.name) <= 0})
         IN  SubSeq(init, 1, k) \o <<x>> \o SubSeq(init, k + 1, Len(init))

leavesOf(items) ==
    LET leafOf(item) ==
            [text |-> OrElse(item.description, item.name), link |-> item.link]
    IN  [i \in 1..Len(items) |-> leafOf(items[i])]

\* categories[key].items after the grouping loop, in input order
directItems(children, key) ==
    LET here(r) == /\ groupKeyOf(r) = key
                   /\ shouldIncludeInSidebar(r)
                   /\ moduleTagOf(r) = key
        rs == SelectSeq(children, here)
    IN  [i \in 1..Len(rs) |-> sidebarItem(rs[i])]

\* Object.keys(categories[key].subgroups)
subgroupKeys(children, key) ==
    {moduleTagOf(children[i]) : i \in {j \in 1..Len(children) :
        /\ groupKeyOf(children[j]) = key
        /\ shouldIncludeInSidebar(children[j])
        /\ moduleTagOf(children[j]) # key}}

\* categories[key].subgroups[tag].items after the grouping loop
subgroupItems(children, key, tag) ==
    LET here(r) == /\ groupKeyOf(r) = key
                   /\ shouldIncludeInSidebar(r)
                   /\ moduleTagOf(r) = tag
        rs == SelectSeq(children, here)
    IN  [i \in 1..Len(rs) |-> sidebarItem(rs[i])]

subgroupBlock(children, key, tag) ==
    [text |-> kindMapName(tag), collapsed |-> TRUE,
     items |-> leavesOf(sortItemsByName(subgroupItems(children, key, tag)))]

categoryItem(children, key) ==
    LET subs == sortKeys(subgroupKeys(children, key))
    IN  [text |-> kindMapName(key), collapsed |-> FALSE,
         items |-> leavesOf(sortItemsByName(directItems(children, key)))
                     \o [i \in 1..Len(subs) |->
                            subgroupBlock(children, key, subs[i])]]

\* the grouping loop of generate followed by convertToVitePressSidebar: one
\* entry per category key in sorted order; an entry lists its direct items
\* and then its subgroup blocks
SidebarGenerate(children) ==
    LET keys == sortKeys({groupKeyOf(children[i]) : i \in 1..Len(children)})
    IN  [i \in 1..Len(keys) |-> categoryItem(children, keys[i])]

-----------------------------------------------------------------------------
(* VitePressRenderer: pure parts *)

MdExt == <<".", "m", "d">>

IndexName == <<"i", "n", "d", "e", "x">> \o MdExt

\* file.endsWith('.md')
endsWithMd(file) ==
    Len(file) >= 3 /\ SubSeq(file, Len(file) - 2, Len(file)) = MdExt

getFilename(reflection) == generateSlug(reflection.name) \o MdExt

\* the key taken from the first path segment: getModule(reflection)?.split("/")[0]
moduleKey_FirstSegment(reflection) ==
    IF Len(getModule(reflection)) >= 1 THEN <<getModule(reflection)[1]>> ELSE <<>>

\* this.getModule(reflection)?.split("/")[1]: <<>> is undefined
moduleKey(reflection) ==
    IF Len(getModule(reflection)) >= 2 THEN <<getModule(reflection)[2]>> ELSE <<>>

\* the forEach of renderProject: nodes join the entry of their key, a new key
\* opens a new entry behind the others
RECURSIVE groupNodes(_, _)
groupNodes(children, map) ==
    IF children = <<>> THEN map
    ELSE LET r == Head(children)
             key == moduleKey(r)
             at == {i \in 1..Len(map) : map[i].key = key}
         IN  IF at # {}
             THEN LET i == CHOOSE j \in at : TRUE
                  IN  groupNodes(Tail(children),
                         [map EXCEPT ![i].value = Append(@, r)])
             ELSE groupNodes(Tail(children),
                         Append(map, [key |-> key, value |-> <<r>>]))

\* reflection.sort((a, b) => a.kind - b.kind) left out
sortByKind_Unsorted(reflection) == reflection

\* reflection.sort((a, b) => a.kind - b.kind): a stable sort
RECURSIVE sortByKind(_)
sortByKind(reflection) ==
    IF reflection = <<>> THEN <<>>
    ELSE LET init == sortByKind(SubSeq(reflection, 1, Len(reflection) - 1))
             x == reflection[Len(reflection)]
             k == Cardinality({i \in 1..Len(init) :
                     ReflectionKind[init[i].kind] - ReflectionKind[x.kind] <= 0})
         IN  SubSeq(init, 1, k) \o <<x>> \o SubSeq(init, k + 1, Len(init))

\* lines.join("\n") of renderReflections: the rendered items in sorted order;
\* kinds other than Function, Class, TypeAlias, Interface add nothing
groupContent(sorted) ==
    LET shown == SelectSeq(sorted, LAMBDA r :
                    r.kind \in {"Function", "Class", "TypeAlias", "Interface"})
        \* the lines one item adds: what renderFunction,
        \* generateMarkdownContent, renderTypeAlias and renderInterface print
        renderItem(item) ==
            [name |-> item.name, kind |-> item.kind, module |-> getModule(item)]
    IN  [doc |-> [i \in 1..Len(shown) |-> renderItem(shown[i])]]

\* CommentParser.getFunctionDescription: the nodes of the model carry no
\* "function" tag and no signature summary
getFunctionDescription(reflection) == <<>>

\* this.getModule(reflection) || "Global"
indexModuleOf(reflection) == OrElse(getModule(reflection), <<"Global">>)

indexLine(reflection) ==
    [text |-> OrElse(getFunctionDescription(reflection), reflection.name),
     link |-> generateSlug(reflection.name)]

indexSection(children, module) ==
    LET rs == sortItemsByName(SelectSeq(children,
                  LAMBDA r : indexModuleOf(r) = module))
    IN  [module |-> module, links |-> [i \in 1..Len(rs) |-> indexLine(rs[i])]]

\* the text generateIndex writes: one section per module in sorted order
indexContent(proj) ==
    LET used == {indexModuleOf(proj.children[i]) : i \in 1..Len(proj.children)}
        \* the module paths of the model in the order of Array.prototype.sort()
        ModulePathsInOrder ==
            << <<"Global">>, <<"browser">>, <<"browser", "http">>, <<"common">>,
               <<"common", "dom">>, <<"common", "http">> >>
        mods == SelectSeq(ModulePathsInOrder, LAMBDA m : m \in used)
    IN  [index |-> [i \in 1..Len(mods) |-> indexSection(proj.children, mods[i])]]

sidebarContent(proj) == [sidebar |-> SidebarGenerate(proj.children)]

-----------------------------------------------------------------------------
(* File system *)

NoFiles == [f \in {} |-> <<>>]

NoFile == [absent |-> TRUE]

Stale == [stale |-> TRUE]

writeFile(fs, name, content) ==
    [f \in DOMAIN fs \cup {name} |-> IF f = name THEN content ELSE fs[f]]

unlink(fs, name) == [f \in DOMAIN fs \ {name} |-> fs[f]]

-----------------------------------------------------------------------------
(* Specification SlugSpec: generateSlug applied to every name of SlugNames *)

RECURSIVE SeqsUpTo(_, _)
SeqsUpTo(S, n) ==
    IF n = 0 THEN {<<>>}
    ELSE LET shorter == SeqsUpTo(S, n - 1)
         IN  shorter \cup {s \o <<c>> : s \in shorter, c \in S}

SlugNames ==
    LET PadChars == {"a", "B", "-", "U+00E9"}
        PadLens == {MAX_LENGTH - 1, MAX_LENGTH, MAX_LENGTH + 1}
        Rep(c, n) == [i \in 1..n |-> c]
    IN  SeqsUpTo(NameChars, MaxNameLen)
          \cup {h \o Rep(p, n) \o t : h \in SeqsUpTo(NameChars, MaxAffixLen),
                                      t \in SeqsUpTo(NameChars, MaxAffixLen),
                                      p \in PadChars, n \in PadLens}

\* the sidebar generator is not running
SidebarIdle ==
    /\ sbChildren = <<>>
    /\ sbPermuted = <<>>
    /\ sbOut = <<>>
    /\ sbOutPermuted = <<>>
    /\ sbPc = "off"

\* the renderer is not running
RenderIdle ==
    /\ incremental = FALSE
    /\ processedFiles = {}
    /\ dirExists = FALSE
    /\ files = NoFiles
    /\ sidebarFile = NoFile
    /\ project = [defined |-> FALSE, children |-> <<>>]
    /\ groups = <<>>
    /\ gi = 1
    /\ pc = "off"
    /\ result = "none"
    /\ pruneList = {}
    /\ run = "none"
    /\ log = <<>>
    /\ written = {}
    /\ deleted = {}
    /\ preFiles = NoFiles
    /\ prevProject = [defined |-> FALSE, children |-> <<>>]
    /\ prevFiles = NoFiles
    /\ prevLog = <<>>

\* no module group is being rendered on its own
GroupIdle ==
    /\ grpChildren = <<>>
    /\ grpPermuted = <<>>
    /\ grpOut = {}
    /\ grpOutPermuted = {}
    /\ grpPc = "off"

\* no activity monitor has been created
MonitorIdle ==
    /\ monTimeout = 0
    /\ monTimer = 0
    /\ monIsActive = FALSE
    /\ monStartTime = 0
    /\ monLastActivityTime = 0
    /\ monNow = 0
    /\ monPending = {}
    /\ monNextId = 0
    /\ onTimeoutCalls = 0
    /\ onActivityCalls = 0
    /\ onStartCalls = 0
    /\ onStopCalls = 0
    /\ monLastOp = "off"
    /\ monPhase = "off"

\* no Timer has been created
TimerIdle ==
    /\ tmrIntervalId = 0
    /\ tmrIntervals = {}
    /\ tmrNextId = 0
    /\ tmrNow = 0
    /\ tmrCalls = <<>>
    /\ tmrStopped = FALSE
    /\ tmrRestarted = FALSE

UtilIdle == MonitorIdle /\ TimerIdle

ParserIdle ==
    /\ prsReflection = <<>>
    /\ prsOp = <<>>
    /\ prsOut = <<>>
    /\ prsPc = "off"

PaginationIdle ==
    /\ pgTotalPages = 0
    /\ pgCurrentPage = 0
    /\ pgVisiblePages = <<>>
    /\ pgLastClick = "off"

\* the slug generator is not running
SlugIdle ==
    /\ slugName = <<>>
    /\ slugOut = <<>>
    /\ slugPc = "off"

SlugInit ==
    /\ slugName \in SlugNames
    /\ slugOut = <<>>
    /\ slugPc = "ready"
    /\ SidebarIdle
    /\ GroupIdle
    /\ RenderIdle
    /\ UtilIdle
    /\ ParserIdle
    /\ PaginationIdle

GenerateSlug ==
    /\ slugPc = "ready"
    /\ slugOut' = generateSlug(slugName)
    /\ slugPc' = "done"
    /\ UNCHANGED <<slugName, sbVars, grpVars, renderVars, utilVars, compVars>>

\* generateSlug called with the slug the first call returned
RegenerateSlug ==
    /\ slugPc = "done"
    /\ slugName' = slugOut
    /\ slugOut' = generateSlug(slugOut)
    /\ slugPc' = "again"
    /\ UNCHANGED <<sbVars, grpVars, renderVars, utilVars, compVars>>

SlugNext == GenerateSlug \/ RegenerateSlug

SlugSpec == SlugInit /\ [][SlugNext]_vars

-----------------------------------------------------------------------------
(* Specification SidebarSpec: SidebarGenerator.generate applied to a       *)
(* project and to the same project with its children in another order      *)

SidebarNodes ==
    { Node(<<"a">>, "Function", <<"browser", "http">>, <<>>, <<>>, <<"d">>, FALSE),
      Node(<<"a">>, "Function", <<"browser", "http">>, <<>>, <<>>, <<"e">>, FALSE),
      Node(<<"B">>, "Class", <<"browser", "http">>, <<>>, <<>>, <<>>, FALSE),
      Node(<<"a">>, "Interface", <<>>, <<>>, <<>>, <<>>, FALSE),
      Node(<<"B">>, "TypeAlias", <<>>, <<"Utilities">>, <<>>, <<"d">>, TRUE),
      Node(<<"U+00E9">>, "Function", <<"common", "dom">>, <<>>, <<>>, <<>>, FALSE),
      Node(<<"e", "U+0301">>, "Function", <<"common">>, <<>>, <<>>, <<"d">>, FALSE),
      Node(<<"7">>, "Variable", <<"browser">>, <<>>, <<"http">>, <<"e">>, FALSE),
      Node(<<"B">>, "Variable", <<"browser">>, <<>>, <<"http">>, <<>>, FALSE) }

Range(s) == {s[i] : i \in 1..Len(s)}

\* the sequences of at most n distinct elements of S
RECURSIVE ListsUpTo(_, _)
ListsUpTo(S, n) ==
    IF n = 0 THEN {<<>>}
    ELSE LET shorter == ListsUpTo(S, n - 1)
         IN  shorter \cup UNION {{l \o <<x>> : x \in S \ Range(l)} : l \in shorter}

PermutationsOf(l) ==
    {p \in [1..Len(l) -> Range(l)] : Range(p) = Range(l)}

SidebarInit ==
    /\ sbChildren \in ListsUpTo(SidebarNodes, MaxSidebarNodes)
    /\ sbPermuted \in PermutationsOf(sbChildren)
    /\ sbOut = <<>>
    /\ sbOutPermuted = <<>>
    /\ sbPc = "ready"
    /\ SlugIdle
    /\ GroupIdle
    /\ RenderIdle
    /\ UtilIdle
    /\ ParserIdle
    /\ PaginationIdle

GenerateSidebar ==
    /\ sbPc = "ready"
    /\ sbOut' = SidebarGenerate(sbChildren)
    /\ sbOutPermuted' = SidebarGenerate(sbPermuted)
    /\ sbPc' = "done"
    /\ UNCHANGED <<sbChildren, sbPermuted, slugVars, grpVars, renderVars, utilVars, compVars>>

SidebarNext == GenerateSidebar

SidebarSpec == SidebarInit /\ [][SidebarNext]_vars

-----------------------------------------------------------------------------
(* Specification RenderSpec: at most two calls of renderProject on one     *)
(* output directory; every file-system call may fail                       *)

Fn(name, kind, module) == Node(name, kind, module, <<>>, <<>>, <<>>, FALSE)

RenderNodes ==
    { Fn(<<"a">>, "Function", <<"browser", "http">>),
      Fn(<<"B">>, "Function", <<"browser", "http">>),
      Fn(<<"a">>, "Interface", <<"common", "dom">>),
      Fn(<<"7">>, "Class", <<"common", "http">>),
      Fn(<<"U+51FD">>, "Variable", <<>>),
      Fn(<<"B", " ", "7">>, "TypeAlias", <<"common">>) }

Projects ==
    {[defined |-> FALSE, children |-> <<>>]}
      \cup {[defined |-> TRUE, children |-> l] : l \in ListsUpTo(RenderNodes, MaxNodes)}

\* the project of a second run: the same nodes, or one node removed
NextProjects(proj) ==
    {proj} \cup {[defined |-> TRUE,
                  children |-> SubSeq(proj.children, 1, i - 1)
                                 \o SubSeq(proj.children, i + 1, Len(proj.children))]
                    : i \in 1..Len(proj.children)}

StrayName == <<"s">> \o MdExt

OtherName == <<"n", ".", "t", "x", "t">>

\* the output directory before the first run: missing, holding files that no
\* run writes, or holding stale files under names a run writes
InitialDirs ==
    { [exists |-> FALSE, files |-> NoFiles],
      [exists |-> TRUE, files |-> [f \in {StrayName, OtherName} |-> Stale]],
      [exists |-> TRUE,
       files |-> [f \in {StrayName, IndexName, <<"a">> \o MdExt} |-> Stale]] }

RenderInit ==
    /\ incremental \in BOOLEAN
    /\ processedFiles = {}
    /\ \E d \in InitialDirs : dirExists = d.exists /\ files = d.files
    /\ sidebarFile = NoFile
    /\ project = [defined |-> FALSE, children |-> <<>>]
    /\ groups = <<>>
    /\ gi = 1
    /\ pc = "idle"
    /\ result = "none"
    /\ pruneList = {}
    /\ run = "none"
    /\ log = <<>>
    /\ written = {}
    /\ deleted = {}
    /\ preFiles = NoFiles
    /\ prevProject = [defined |-> FALSE, children |-> <<>>]
    /\ prevFiles = NoFiles
    /\ prevLog = <<>>
    /\ SlugIdle
    /\ SidebarIdle
    /\ GroupIdle
    /\ UtilIdle
    /\ ParserIdle
    /\ PaginationIdle

Logged(op, ok) == log' = Append(log, [op |-> op, ok |-> ok])

\* a rejected await: the error leaves renderProject
Throw(op) ==
    /\ Logged(op, FALSE)
    /\ pc' = "failed"
    /\ result' = "rejected"

\* renderProject clearing the output directory in both modes
StartRun_AlwaysClear ==
    /\ \/ pc = "idle"
       \/ pc = "done" /\ result = "resolved" /\ run = "first"
    /\ \E p \in (IF run = "none" THEN Projects ELSE NextProjects(project)) :
          project' = p
    /\ run' = IF run = "none" THEN "first" ELSE "second"
    /\ pc' = "clear"
    /\ result' = "none"
    /\ groups' = <<>>
    /\ gi' = 1
    /\ pruneList' = {}
    /\ log' = <<>>
    /\ written' = {}
    /\ deleted' = {}
    /\ preFiles' = files
    /\ prevProject' = project
    /\ prevFiles' = files
    /\ prevLog' = log
    /\ UNCHANGED <<incremental, processedFiles, fsVars, nonRenderVars>>

\* renderProject is called
StartRun ==
    /\ \/ pc = "idle"
       \/ pc = "done" /\ result = "resolved" /\ run = "first"
    /\ \E p \in (IF run = "none" THEN Projects ELSE NextProjects(project)) :
          project' = p
    /\ run' = IF run = "none" THEN "first" ELSE "second"
    /\ pc' = IF incremental THEN "mkdir" ELSE "clear"
    /\ result' = "none"
    /\ groups' = <<>>
    /\ gi' = 1
    /\ pruneList' = {}
    /\ log' = <<>>
    /\ written' = {}
    /\ deleted' = {}
    /\ preFiles' = files
    /\ prevProject' = project
    /\ prevFiles' = files
    /\ prevLog' = log
    /\ UNCHANGED <<incremental, processedFiles, fsVars, nonRenderVars>>

\* clearOutputDir without the rm
ClearRm_Kept ==
    /\ pc = "clear"
    /\ pc' = "mkdir"
    /\ UNCHANGED <<dirExists, files, log, result>>
    /\ UNCHANGED <<incremental, processedFiles, sidebarFile, project, groups, gi,
                   pruneList, run, written, deleted, preFiles, prevProject,
                   prevFiles, prevLog, nonRenderVars>>

\* clearOutputDir: fs.existsSync and fsPromises.rm(outputDir, {recursive})
ClearRm ==
    /\ pc = "clear"
    /\ IF ~dirExists
       THEN pc' = "mkdir" /\ UNCHANGED <<dirExists, files, log, result>>
       ELSE \/ /\ dirExists' = FALSE
               /\ files' = NoFiles
               /\ Logged("rm", TRUE)
               /\ pc' = "mkdir"
               /\ UNCHANGED result
            \/ /\ Throw("rm")
               /\ UNCHANGED <<dirExists, files>>
    /\ UNCHANGED <<incremental, processedFiles, sidebarFile, project, groups, gi,
                   pruneList, run, written, deleted, preFiles, prevProject,
                   prevFiles, prevLog, nonRenderVars>>

\* fsPromises.mkdir(outputDir, {recursive: true}), in both modes
Mkdir ==
    /\ pc = "mkdir"
    /\ \/ /\ dirExists' = TRUE
          /\ Logged("mkdir", TRUE)
          /\ pc' = "group"
          /\ UNCHANGED result
       \/ /\ Throw("mkdir")
          /\ UNCHANGED dirExists
    /\ UNCHANGED <<incremental, processedFiles, files, sidebarFile, project, groups,
                   gi, pruneList, run, written, deleted, preFiles, prevProject,
                   prevFiles, prevLog, nonRenderVars>>

\* renderProject: the Map of module groups is filled
GroupNodes ==
    /\ pc = "group"
    /\ groups' = IF project.defined THEN groupNodes(project.children, <<>>) ELSE <<>>
    /\ gi' = 1
    /\ pc' = IF groups' = <<>> THEN "index" ELSE "render"
    /\ Logged("group", TRUE)
    /\ UNCHANGED <<incremental, processedFiles, fsVars, project, result, pruneList,
                   run, written, deleted, preFiles, prevProject, prevFiles,
                   prevLog, nonRenderVars>>

\* the catch of renderReflections swallowing the error
RenderReflectionsFailed_Swallowed ==
    /\ Logged("write", FALSE)
    /\ pc' = IF gi = Len(groups) THEN "index" ELSE "render"
    /\ UNCHANGED result

\* the catch of renderReflections: log and rethrow
RenderReflectionsFailed == Throw("write")

\* renderReflections(value) for the next entry of the Map
RenderReflections ==
    /\ pc = "render"
    /\ LET sorted == sortByKind(groups[gi].value)
           filename == getFilename(sorted[1])
       IN  /\ groups' = [groups EXCEPT ![gi].value = sorted]
           /\ gi' = gi + 1
           /\ \/ /\ files' = writeFile(files, filename, groupContent(sorted))
                 /\ written' = written \cup {filename}
                 /\ Logged("write", TRUE)
                 /\ pc' = IF gi = Len(groups) THEN "index" ELSE "render"
                 /\ UNCHANGED result
              \/ /\ RenderReflectionsFailed
                 /\ UNCHANGED <<files, written>>
    /\ UNCHANGED <<incremental, processedFiles, dirExists, sidebarFile, project,
                   pruneList, run, deleted, preFiles, prevProject, prevFiles,
                   prevLog, nonRenderVars>>

\* generateIndex(project)
GenerateIndex ==
    /\ pc = "index"
    /\ \/ /\ files' = writeFile(files, IndexName, indexContent(project))
          /\ Logged("index", TRUE)
          /\ pc' = "sidebar"
          /\ UNCHANGED result
       \/ /\ Throw("index")
          /\ UNCHANGED files
    /\ UNCHANGED <<incremental, processedFiles, dirExists, sidebarFile, project,
                   groups, gi, pruneList, run, written, deleted, preFiles,
                   prevProject, prevFiles, prevLog, nonRenderVars>>

\* generateSidebarConfig followed by the prune in both modes
GenerateSidebarConfig_AlwaysPrune ==
    /\ pc = "sidebar"
    /\ \/ /\ sidebarFile' = sidebarContent(project)
          /\ Logged("sidebar", TRUE)
          /\ pc' = "readdir"
          /\ UNCHANGED result
       \/ /\ Throw("sidebar")
          /\ UNCHANGED sidebarFile
    /\ UNCHANGED <<incremental, processedFiles, dirExists, files, project, groups,
                   gi, pruneList, run, written, deleted, preFiles, prevProject,
                   prevFiles, prevLog, nonRenderVars>>

\* generateSidebarConfig(project); a full-mode run ends here
GenerateSidebarConfig ==
    /\ pc = "sidebar"
    /\ \/ /\ sidebarFile' = sidebarContent(project)
          /\ Logged("sidebar", TRUE)
          /\ pc' = IF incremental THEN "readdir" ELSE "done"
          /\ result' = IF incremental THEN result ELSE "resolved"
       \/ /\ Throw("sidebar")
          /\ UNCHANGED sidebarFile
    /\ UNCHANGED <<incremental, processedFiles, dirExists, files, project, groups,
                   gi, pruneList, run, written, deleted, preFiles, prevProject,
                   prevFiles, prevLog, nonRenderVars>>

\* the catch of cleanupUnusedFiles rethrowing the error
CleanupFailed_Rethrown(op) == Throw(op)

\* the catch of cleanupUnusedFiles: log, do not rethrow; renderProject returns
CleanupFailed(op) ==
    /\ Logged(op, FALSE)
    /\ pc' = "done"
    /\ result' = "resolved"

\* cleanupUnusedFiles with the filter file.endsWith('.md') alone
CleanupReaddir_IndexNotSpared ==
    /\ pc = "readdir"
    /\ \/ /\ dirExists
          /\ pruneList' = {f \in DOMAIN files : endsWithMd(f)}
          /\ Logged("readdir", TRUE)
          /\ pc' = IF pruneList' = {} THEN "done" ELSE "unlink"
          /\ result' = IF pruneList' = {} THEN "resolved" ELSE result
       \/ /\ CleanupFailed("readdir")
          /\ UNCHANGED pruneList
    /\ UNCHANGED <<incremental, processedFiles, fsVars, project, groups, gi, run,
                   written, deleted, preFiles, prevProject, prevFiles, prevLog,
                   nonRenderVars>>

\* cleanupUnusedFiles: fsPromises.readdir(outputDir) and the filter
CleanupReaddir ==
    /\ pc = "readdir"
    /\ \/ /\ dirExists
          /\ pruneList' = {f \in DOMAIN files : endsWithMd(f) /\ f # IndexName}
          /\ Logged("readdir", TRUE)
          /\ pc' = IF pruneList' = {} THEN "done" ELSE "unlink"
          /\ result' = IF pruneList' = {} THEN "resolved" ELSE result
       \/ /\ CleanupFailed("readdir")
          /\ UNCHANGED pruneList
    /\ UNCHANGED <<incremental, processedFiles, fsVars, project, groups, gi, run,
                   written, deleted, preFiles, prevProject, prevFiles, prevLog,
                   nonRenderVars>>

\* cleanupUnusedFiles: one turn of the loop over markdownFiles; readdir
\* returns the names in no particular order
CleanupUnlink ==
    /\ pc = "unlink"
    /\ \E file \in pruneList :
          \/ /\ pruneList' = pruneList \ {file}
             /\ IF file \in processedFiles
                THEN UNCHANGED <<files, deleted, log>>
                ELSE /\ files' = unlink(files, file)
                     /\ deleted' = deleted \cup {file}
                     /\ Logged("unlink", TRUE)
             /\ pc' = IF pruneList' = {} THEN "done" ELSE "unlink"
             /\ result' = IF pruneList' = {} THEN "resolved" ELSE result
          \/ /\ file \notin processedFiles
             /\ CleanupFailed("unlink")
             /\ UNCHANGED <<pruneList, files, deleted>>
    /\ UNCHANGED <<incremental, processedFiles, dirExists, sidebarFile, project,
                   groups, gi, run, written, preFiles, prevProject, prevFiles,
                   prevLog, nonRenderVars>>

RenderNext ==
    \/ StartRun
    \/ ClearRm
    \/ Mkdir
    \/ GroupNodes
    \/ RenderReflections
    \/ GenerateIndex
    \/ GenerateSidebarConfig
    \/ CleanupReaddir
    \/ CleanupUnlink

RenderSpec == RenderInit /\ [][RenderNext]_vars

-----------------------------------------------------------------------------
(* Specification GroupSpec: the grouping of renderProject and the sort,    *)
(* file name and text of renderReflections, applied to a project and to    *)
(* the same project with its children in another order                     *)

\* what renderProject writes for each entry of the Map: the file name taken
\* from the first node of the sorted group, and the text
groupOutputs(children) ==
    LET map == groupNodes(children, <<>>)
    IN  {[key |-> map[i].key,
          file |-> getFilename(sortByKind(map[i].value)[1]),
          content |-> groupContent(sortByKind(map[i].value))] : i \in 1..Len(map)}

GroupInit ==
    /\ grpChildren \in ListsUpTo(RenderNodes, MaxNodes)
    /\ grpPermuted \in PermutationsOf(grpChildren)
    /\ grpOut = {}
    /\ grpOutPermuted = {}
    /\ grpPc = "ready"
    /\ SlugIdle
    /\ SidebarIdle
    /\ RenderIdle
    /\ UtilIdle
    /\ ParserIdle
    /\ PaginationIdle

RenderGroups ==
    /\ grpPc = "ready"
    /\ grpOut' = groupOutputs(grpChildren)
    /\ grpOutPermuted' = groupOutputs(grpPermuted)
    /\ grpPc' = "done"
    /\ UNCHANGED <<grpChildren, grpPermuted, slugVars, sbVars, renderVars, utilVars, compVars>>

GroupNext == RenderGroups

GroupSpec == GroupInit /\ [][GroupNext]_vars

-----------------------------------------------------------------------------
(* createActivityMonitor (packages/utils, common/activity.ts)              *)
(*                                                                         *)
(* The monitor is the closure state timer, isActive, startTime and         *)
(* lastActivityTime.  window.setTimeout is a table of pending timeouts,    *)
(* each with the id it was given and the time it is due; the clock is the  *)
(* one Date.now() reads, and a timeout that is due runs before the clock   *)
(* moves on.                                                               *)

\* Date.now() when the monitor is created: a positive number
Epoch == 1

\* clearTimeout(id)
clearTimeout(pending, id) == {t \in pending : t.id # id}

\* getState()
getState ==
    [isActive |-> monIsActive,
     remainingTime |-> IF monTimer # 0
                       THEN monTimeout - (monNow - monLastActivityTime)
                       ELSE 0,
     elapsedTime |-> IF monStartTime # 0 THEN monNow - monStartTime ELSE 0]

\* check() without the clearTimeout of the pending timer
check_NoClear ==
    /\ monNextId <= MaxTimers
    /\ monNow + monTimeout <= MaxTime
    /\ monLastActivityTime' = monNow
    /\ monIsActive' = TRUE
    /\ monStartTime' = IF monIsActive THEN monStartTime ELSE monNow
    /\ onStartCalls' = IF monIsActive THEN onStartCalls ELSE onStartCalls + 1
    /\ onActivityCalls' = onActivityCalls + 1
    /\ monPending' = monPending \cup {[id |-> monNextId, due |-> monNow + monTimeout]}
    /\ monTimer' = monNextId
    /\ monNextId' = monNextId + 1
    /\ monPhase' = "running"
    /\ UNCHANGED <<monTimeout, monNow, onTimeoutCalls, onStopCalls>>

\* check(): clear the pending timer, note the activity, on an inactive
\* monitor become active and call onStart, call onActivity, set a new timer
check ==
    /\ monNextId <= MaxTimers
    /\ monNow + monTimeout <= MaxTime
    /\ monLastActivityTime' = monNow
    /\ monIsActive' = TRUE
    /\ monStartTime' = IF monIsActive THEN monStartTime ELSE monNow
    /\ onStartCalls' = IF monIsActive THEN onStartCalls ELSE onStartCalls + 1
    /\ onActivityCalls' = onActivityCalls + 1
    /\ monPending' = clearTimeout(monPending, monTimer)
                       \cup {[id |-> monNextId, due |-> monNow + monTimeout]}
    /\ monTimer' = monNextId
    /\ monNextId' = monNextId + 1
    /\ monPhase' = "running"
    /\ UNCHANGED <<monTimeout, monNow, onTimeoutCalls, onStopCalls>>

\* the variables of the monitor a call may leave as they are
monState ==
    <<monTimeout, monTimer, monIsActive, monStartTime, monLastActivityTime, monNow,
      monPending, monNextId, onTimeoutCalls, onActivityCalls, onStartCalls,
      onStopCalls, monPhase>>

otherThanMonitor == <<slugVars, sbVars, grpVars, renderVars, tmrVars, compVars>>

\* the state after createActivityMonitor(options) returned; with autoStart
\* the constructor has called start()
MonitorInit ==
    /\ monTimeout \in 1..MaxTimeout
    /\ monNow = Epoch
    /\ monLastOp = "create"
    /\ onTimeoutCalls = 0
    /\ onStopCalls = 0
    /\ \E autoStart \in BOOLEAN :
          IF autoStart
          THEN /\ monTimer = 1
               /\ monIsActive = TRUE
               /\ monStartTime = Epoch
               /\ monLastActivityTime = Epoch
               /\ monPending = {[id |-> 1, due |-> Epoch + monTimeout]}
               /\ monNextId = 2
               /\ onActivityCalls = 1
               /\ onStartCalls = 1
               /\ monPhase = "running"
          ELSE /\ monTimer = 0
               /\ monIsActive = FALSE
               /\ monStartTime = 0
               /\ monLastActivityTime = 0
               /\ monPending = {}
               /\ monNextId = 1
               /\ onActivityCalls = 0
               /\ onStartCalls = 0
               /\ monPhase = "new"
    /\ TimerIdle
    /\ ParserIdle
    /\ PaginationIdle
    /\ SlugIdle
    /\ SidebarIdle
    /\ GroupIdle
    /\ RenderIdle

\* monitor.check()
MonitorCheck ==
    /\ check
    /\ monLastOp' = "check"
    /\ UNCHANGED otherThanMonitor

\* monitor.start()
MonitorStart ==
    /\ IF ~monIsActive THEN check ELSE UNCHANGED monState
    /\ monLastOp' = "start"
    /\ UNCHANGED otherThanMonitor

\* stop() leaving the timer pending
MonitorStop_TimerKept ==
    /\ monIsActive' = FALSE
    /\ onStopCalls' = IF monIsActive THEN onStopCalls + 1 ELSE onStopCalls
    /\ monStartTime' = 0
    /\ monPhase' = "stopped"
    /\ monLastOp' = "stop"
    /\ UNCHANGED <<monTimer, monPending, monTimeout, monLastActivityTime, monNow,
                   monNextId, onTimeoutCalls, onActivityCalls, onStartCalls>>
    /\ UNCHANGED otherThanMonitor

\* monitor.stop()
MonitorStop ==
    /\ monPending' = IF monTimer # 0 THEN clearTimeout(monPending, monTimer) ELSE monPending
    /\ monTimer' = 0
    /\ monIsActive' = FALSE
    /\ onStopCalls' = IF monIsActive THEN onStopCalls + 1 ELSE onStopCalls
    /\ monStartTime' = 0
    /\ monPhase' = "stopped"
    /\ monLastOp' = "stop"
    /\ UNCHANGED <<monTimeout, monLastActivityTime, monNow, monNextId, onTimeoutCalls,
                   onActivityCalls, onStartCalls>>
    /\ UNCHANGED otherThanMonitor

\* monitor.pause()
MonitorPause ==
    /\ monPending' = IF monTimer # 0 THEN clearTimeout(monPending, monTimer) ELSE monPending
    /\ monTimer' = 0
    /\ monPhase' = IF monIsActive THEN "paused" ELSE monPhase
    /\ monLastOp' = "pause"
    /\ UNCHANGED <<monTimeout, monIsActive, monStartTime, monLastActivityTime, monNow,
                   monNextId, onTimeoutCalls, onActivityCalls, onStartCalls,
                   onStopCalls>>
    /\ UNCHANGED otherThanMonitor

\* resume() that does not call check()
MonitorResume_Idle ==
    /\ monLastOp' = "resume"
    /\ UNCHANGED monState
    /\ UNCHANGED otherThanMonitor

\* monitor.resume()
MonitorResume ==
    /\ IF monIsActive THEN check ELSE UNCHANGED monState
    /\ monLastOp' = "resume"
    /\ UNCHANGED otherThanMonitor

\* the function handed to window.setTimeout runs: its timer is due
MonitorTimeout ==
    \E t \in monPending :
        /\ t.due <= monNow
        /\ monPending' = monPending \ {t}
        /\ onTimeoutCalls' = onTimeoutCalls + 1
        /\ monIsActive' = FALSE
        /\ monStartTime' = 0
        /\ monPhase' = "expired"
        /\ monLastOp' = "timeout"
        /\ UNCHANGED <<monTimeout, monTimer, monLastActivityTime, monNow, monNextId,
                       onActivityCalls, onStartCalls, onStopCalls>>
        /\ UNCHANGED otherThanMonitor

\* a millisecond passes; no timer is due
MonitorTick ==
    /\ monNow < MaxTime
    /\ \A t \in monPending : t.due > monNow
    /\ monNow' = monNow + 1
    /\ UNCHANGED <<monTimeout, monTimer, monIsActive, monStartTime,
                   monLastActivityTime, monPending, monNextId, onTimeoutCalls,
                   onActivityCalls, onStartCalls, onStopCalls, monLastOp, monPhase>>
    /\ UNCHANGED otherThanMonitor

MonitorNext ==
    \/ MonitorCheck
    \/ MonitorStart
    \/ MonitorStop
    \/ MonitorPause
    \/ MonitorResume
    \/ MonitorTimeout
    \/ MonitorTick

\* time passes and the event loop runs the timers that are due
MonitorSpec ==
    /\ MonitorInit
    /\ [][MonitorNext]_vars
    /\ WF_vars(MonitorTick) /\ WF_vars(MonitorTimeout)

-----------------------------------------------------------------------------
(* Timer (packages/utils, common/timer.ts)                                 *)
(*                                                                         *)
(* setInterval is a table of intervals, each with the id it was given, its *)
(* callback, its length and the time of its next call; an interval that is *)
(* due runs before the clock moves on.                                     *)

\* the functions handed to start()
Callbacks == {"f", "g"}

\* clearInterval(id)
clearInterval(intervals, id) == {t \in intervals : t.id # id}

otherThanTimer == <<slugVars, sbVars, grpVars, renderVars, monVars, compVars>>

\* the state after new Timer()
TimerInit ==
    /\ tmrIntervalId = 0
    /\ tmrIntervals = {}
    /\ tmrNextId = 1
    /\ tmrNow = Epoch
    /\ tmrCalls = [c \in Callbacks |-> 0]
    /\ tmrStopped = FALSE
    /\ tmrRestarted = FALSE
    /\ MonitorIdle
    /\ ParserIdle
    /\ PaginationIdle
    /\ SlugIdle
    /\ SidebarIdle
    /\ GroupIdle
    /\ RenderIdle

\* timer.start(callback, interval)
TimerStart ==
    /\ tmrNextId <= MaxStarts
    /\ \E callback \in Callbacks, interval \in 1..MaxInterval :
          tmrIntervals' = tmrIntervals \cup
              {[id |-> tmrNextId, callback |-> callback, interval |-> interval,
                due |-> tmrNow + interval]}
    /\ tmrIntervalId' = tmrNextId
    /\ tmrNextId' = tmrNextId + 1
    /\ tmrStopped' = FALSE
    /\ tmrRestarted' = (tmrRestarted \/ tmrIntervalId # 0)
    /\ UNCHANGED <<tmrNow, tmrCalls>>
    /\ UNCHANGED otherThanTimer

\* stop() forgetting the interval without clearing it
TimerStop_NoClear ==
    /\ tmrIntervalId' = 0
    /\ tmrStopped' = TRUE
    /\ UNCHANGED <<tmrIntervals, tmrNextId, tmrNow, tmrCalls, tmrRestarted>>
    /\ UNCHANGED otherThanTimer

\* timer.stop()
TimerStop ==
    /\ IF tmrIntervalId # 0
       THEN /\ tmrIntervals' = clearInterval(tmrIntervals, tmrIntervalId)
            /\ tmrIntervalId' = 0
       ELSE UNCHANGED <<tmrIntervals, tmrIntervalId>>
    /\ tmrStopped' = TRUE
    /\ UNCHANGED <<tmrNextId, tmrNow, tmrCalls, tmrRestarted>>
    /\ UNCHANGED otherThanTimer

\* an interval is due: its callback is called and the interval starts again
TimerFire ==
    \E t \in tmrIntervals :
        /\ t.due <= tmrNow
        /\ tmrCalls' = [tmrCalls EXCEPT ![t.callback] = @ + 1]
        /\ tmrIntervals' = (tmrIntervals \ {t})
                             \cup {[t EXCEPT !.due = t.due + t.interval]}
        /\ UNCHANGED <<tmrIntervalId, tmrNextId, tmrNow, tmrStopped, tmrRestarted>>
        /\ UNCHANGED otherThanTimer

\* a millisecond passes; no interval is due
TimerTick ==
    /\ tmrNow < MaxTime
    /\ \A t \in tmrIntervals : t.due > tmrNow
    /\ tmrNow' = tmrNow + 1
    /\ UNCHANGED <<tmrIntervalId, tmrIntervals, tmrNextId, tmrCalls, tmrStopped,
                   tmrRestarted>>
    /\ UNCHANGED otherThanTimer

TimerNext ==
    \/ TimerStart
    \/ TimerStop
    \/ TimerFire
    \/ TimerTick

TimerSpec == TimerInit /\ [][TimerNext]_vars

-----------------------------------------------------------------------------
(* CommentParser (src/CommentParser.ts)                                    *)
(*                                                                         *)
(* A field that may be undefined is None or Some(value).  A comment has    *)
(* blockTags (tags with a name and a content list of parts with a text),   *)
(* tags (tags with a tagName and a text), shortText and text.  A call      *)
(* gives a string, null or undefined, or throws a TypeError.               *)

None == <<>>

Some(x) == <<x>>

Str(s) == [t |-> "string", v |-> s]

Null == [t |-> "null", v |-> <<>>]

Undefined == [t |-> "undefined", v |-> <<>>]

\* reading a property of undefined
TypeError == [t |-> "TypeError", v |-> <<>>]

\* if (value): a string that is not empty
Truthy(r) == r.t = "string" /\ r.v # <<>>

\* String.prototype.trim
trim(s) ==
    LET keep == {i \in 1..Len(s) : s[i] \notin Whitespace \cup {"\n"}}
    IN  IF keep = {} THEN <<>>
        ELSE SubSeq(s, CHOOSE i \in keep : \A j \in keep : i <= j,
                       CHOOSE i \in keep : \A j \in keep : i >= j)

\* text.match(/module:([^\s]+)/): None for null, Some(group 1) for a match
matchModule(text) ==
    LET lit == <<"m", "o", "d", "u", "l", "e", ":">>
        Blank == Whitespace \cup {"\n"}
        starts == {i \in 1..(Len(text) - 7) :
                      /\ SubSeq(text, i, i + 6) = lit
                      /\ text[i + 7] \notin Blank}
    IN  IF starts = {} THEN None
        ELSE LET i == CHOOSE k \in starts : \A j \in starts : k <= j
                 ends == {e \in (i + 7)..Len(text) :
                             \A k \in (i + 7)..e : text[k] \notin Blank}
             IN  Some(SubSeq(text, i + 7,
                             CHOOSE e \in ends : \A j \in ends : e >= j))

\* [shortText, text].filter(Boolean).join("\n\n")
fullTextOf(comment) ==
    LET parts == SelectSeq(<<comment.shortText, comment.text>>,
                           LAMBDA p : p # None /\ p[1] # <<>>)
    IN  IF parts = <<>> THEN <<>>
        ELSE IF Len(parts) = 1 THEN parts[1][1]
        ELSE parts[1][1] \o <<"\n", "\n">> \o parts[2][1]

\* tag.content[0].text
contentText(tag) ==
    IF tag.content = None THEN TypeError
    ELSE IF tag.content[1] = <<>> THEN TypeError
    ELSE IF tag.content[1][1].text = None THEN Undefined
    ELSE Str(tag.content[1][1].text[1])

\* CommentParser.extractModuleFromComment(comment, name)
extractModuleFromComment(comment, name) ==
    IF comment = None \/ comment[1].blockTags = None THEN Null
    ELSE LET found == SelectSeq(comment[1].blockTags[1],
                                LAMBDA tag : tag.tag = name)
         IN  IF name = "@func"
             THEN IF found = <<>> THEN Undefined ELSE contentText(found[1])
             ELSE IF found # <<>>
             THEN LET text == contentText(found[1])
                  IN  IF text.t # "string" THEN TypeError
                      ELSE IF matchModule(text.v) # None
                      THEN Str(matchModule(text.v)[1])
                      ELSE IF found[1].text = None THEN TypeError
                      ELSE Str(trim(found[1].text[1]))
             ELSE Null

\* the loop of getModule over the signatures: the first value that is not
\* falsy, Null when the loop ends
RECURSIVE moduleOfSignatures(_, _)
moduleOfSignatures(signatures, name) ==
    IF signatures = <<>> THEN Null
    ELSE LET signatureModule ==
                 extractModuleFromComment(Head(signatures).comment, name)
         IN  IF signatureModule = TypeError \/ Truthy(signatureModule)
             THEN signatureModule
             ELSE moduleOfSignatures(Tail(signatures), name)

\* the if of getModule over reflection.comment
moduleOfComment(reflection, name) ==
    IF reflection.comment # None
    THEN LET signatureModule ==
                 extractModuleFromComment(reflection.comment, name)
         IN  IF signatureModule = TypeError \/ Truthy(signatureModule)
             THEN signatureModule
             ELSE Null
    ELSE Null

\* getModule looking into the comment of the node before the signatures
CommentParser_getModule_OwnFirst(reflection, name) ==
    LET own == moduleOfComment(reflection, name)
    IN  IF own # Null THEN own
        ELSE IF reflection.signatures # None
        THEN moduleOfSignatures(reflection.signatures[1], name)
        ELSE Null

\* CommentParser.getModule(reflection, name)
CommentParser_getModule(reflection, name) ==
    LET fromSignatures ==
            IF reflection.signatures # None
            THEN moduleOfSignatures(reflection.signatures[1], name)
            ELSE Null
    IN  IF fromSignatures # Null THEN fromSignatures
        ELSE moduleOfComment(reflection, name)

\* CommentParser.extractFunctionDescriptionFromComment(comment)
extractFunctionDescriptionFromComment(comment) ==
    IF comment = None \/ comment[1].tags = None THEN Null
    ELSE LET found == SelectSeq(comment[1].tags[1],
                                LAMBDA tag : tag.tagName = "function")
             \* text.replace(/U+3002$/, ""): a final ideographic full stop
             \* is dropped
             stripFinalStop(text) ==
                 IF text # <<>> /\ text[Len(text)] = "U+3002"
                 THEN SubSeq(text, 1, Len(text) - 1)
                 ELSE text
         IN  IF found = <<>> THEN Null
             ELSE IF found[1].text = None THEN TypeError
             ELSE Str(stripFinalStop(trim(found[1].text[1])))

\* a loop of getFunctionDescription over signatures: the first description
\* or short text that is not falsy, Null when the loop ends
RECURSIVE descriptionOfSignatures(_)
descriptionOfSignatures(signatures) ==
    IF signatures = <<>> THEN Null
    ELSE LET comment == Head(signatures).comment
             signatureDescription ==
                 extractFunctionDescriptionFromComment(comment)
             \* signature.comment?.shortText
             shortText ==
                 IF comment = None \/ comment[1].shortText = None
                 THEN Undefined
                 ELSE Str(comment[1].shortText[1])
         IN  IF signatureDescription = TypeError \/ Truthy(signatureDescription)
             THEN signatureDescription
             ELSE IF Truthy(shortText) THEN shortText
             ELSE descriptionOfSignatures(Tail(signatures))

\* CommentParser.getFunctionDescription(reflection)
CommentParser_getFunctionDescription(reflection) ==
    LET reflectionDescription ==
            extractFunctionDescriptionFromComment(reflection.comment)
        ofSignatures ==
            IF reflection.signatures # None
            THEN descriptionOfSignatures(reflection.signatures[1])
            ELSE Null
        \* reflection.type?.type === "reflection" &&
        \* reflection.type.declaration?.signatures
        typeSignatures ==
            IF /\ reflection.type # None
               /\ reflection.type[1].type = "reflection"
               /\ reflection.type[1].declaration # None
            THEN reflection.type[1].declaration[1].signatures
            ELSE None
        ofType ==
            IF typeSignatures # None
            THEN descriptionOfSignatures(typeSignatures[1])
            ELSE Null
    IN  IF reflectionDescription = TypeError \/ Truthy(reflectionDescription)
        THEN reflectionDescription
        ELSE IF ofSignatures # Null THEN ofSignatures
        ELSE ofType

\* the loop of getFullDescription over the signatures: the first full text
\* that is not empty, <<>> when the loop ends
RECURSIVE fullTextOfSignatures(_)
fullTextOfSignatures(signatures) ==
    IF signatures = <<>> THEN <<>>
    ELSE IF /\ Head(signatures).comment # None
            /\ fullTextOf(Head(signatures).comment[1]) # <<>>
    THEN fullTextOf(Head(signatures).comment[1])
    ELSE fullTextOfSignatures(Tail(signatures))

\* CommentParser.getFullDescription(reflection)
CommentParser_getFullDescription(reflection) ==
    LET functionDescription == CommentParser_getFunctionDescription(reflection)
        \* ReflectionKind[reflection.kind].toLowerCase()
        lowerKindName ==
            CASE reflection.kind = "Function" ->
                     <<"f", "u", "n", "c", "t", "i", "o", "n">>
              [] reflection.kind = "Variable" ->
                     <<"v", "a", "r", "i", "a", "b", "l", "e">>
        ofSignatures ==
            IF reflection.signatures # None
            THEN fullTextOfSignatures(reflection.signatures[1])
            ELSE <<>>
    IN  IF functionDescription = TypeError \/ Truthy(functionDescription)
        THEN functionDescription
        ELSE IF /\ reflection.comment # None
                /\ fullTextOf(reflection.comment[1]) # <<>>
        THEN Str(fullTextOf(reflection.comment[1]))
        ELSE IF ofSignatures # <<>> THEN Str(ofSignatures)
        ELSE Str(reflection.name \o <<" ">> \o lowerKindName)

\* the reflections of the model.  Their comments: without any field; with
\* empty lists; with a "@memberof module:a/b"; with every kind of tag and
\* both texts; with a "@memberof" of empty content; with a "@memberof x"
\* that has the older text " x ", no older text, or a blank one; with a
\* "@func" without content and a "function" tag without text; with empty
\* texts.  reflection.signatures is undefined or a list of up to
\* MaxSignatures signatures, each with or without a comment;
\* reflection.type is undefined, not a reflection type, a reflection type
\* without declaration, or the declaration of a function type
ParserReflections ==
    LET Comment(blockTags, tags, shortText, text) ==
            [blockTags |-> blockTags, tags |-> tags, shortText |-> shortText,
             text |-> text]
        BlockTag(tag, content, text) ==
            [tag |-> tag, content |-> content, text |-> text]
        Tag(tagName, text) == [tagName |-> tagName, text |-> text]
        Part(text) == [text |-> text]
        Signature(comment) == [comment |-> comment]
        \* "module:a/b"
        ModuleAB == <<"m", "o", "d", "u", "l", "e", ":", "a", "/", "b">>
        \* "s module:c z"
        SeeModuleC ==
            <<"s", " ", "m", "o", "d", "u", "l", "e", ":", "c", " ", "z">>
        Memberof(text, older) ==
            BlockTag("@memberof", Some(<<Part(Some(text))>>), older)
        ParserComments ==
            { Comment(None, None, None, None),
              Comment(Some(<<>>), Some(<<>>), Some(<<"s">>), None),
              Comment(Some(<<Memberof(ModuleAB, None)>>),
                      None, None, Some(<<"t">>)),
              Comment(Some(<<BlockTag("@example",
                                      Some(<<Part(Some(<<"e">>))>>), None),
                             Memberof(SeeModuleC, None),
                             BlockTag("@func",
                                      Some(<<Part(Some(<<"d">>))>>), None)>>),
                      Some(<<Tag("param", Some(<<"p">>)),
                             Tag("function", Some(<<" ", "d", "U+3002">>))>>),
                      Some(<<"s">>), Some(<<"t">>)),
              Comment(Some(<<BlockTag("@memberof", Some(<<>>), None)>>),
                      None, None, None),
              Comment(Some(<<Memberof(<<"x">>, Some(<<" ", "x", " ">>))>>),
                      None, None, None),
              Comment(Some(<<Memberof(<<"x">>, None)>>), None, None, None),
              Comment(Some(<<Memberof(<<"x">>, Some(<<" ">>))>>),
                      None, None, None),
              Comment(Some(<<BlockTag("@func", None, None)>>),
                      Some(<<Tag("function", None)>>), None, None),
              Comment(None, None, Some(<<>>), Some(<<>>)) }
        OptionalComments == {None} \cup {Some(c) : c \in ParserComments}
        Signatures == {Signature(c) : c \in OptionalComments}
        SignatureLists ==
            {None} \cup
            {Some(l) : l \in UNION {[1..n -> Signatures]
                                     : n \in 0..MaxSignatures}}
        FunctionType ==
            [type |-> "reflection",
             declaration |-> Some([signatures |-> Some(<<Signature(Some(
                 Comment(None, Some(<<Tag("function", Some(<<"f">>))>>),
                         None, None)))>>)])]
        Types ==
            { None,
              Some([type |-> "intrinsic", declaration |-> None]),
              Some([type |-> "reflection", declaration |-> None]),
              Some(FunctionType) }
    IN  [name : {<<"a">>}, kind : {"Function"}, comment : OptionalComments,
         signatures : SignatureLists, type : Types]

ParserInit ==
    /\ prsReflection \in ParserReflections
    /\ prsOp = <<>>
    /\ prsOut = <<>>
    /\ prsPc = "ready"
    /\ SlugIdle
    /\ SidebarIdle
    /\ GroupIdle
    /\ RenderIdle
    /\ UtilIdle
    /\ PaginationIdle

\* a caller of CommentParser.getModule(reflection, name)
CallGetModule ==
    /\ prsPc = "ready"
    /\ \E name \in {"@memberof", "@func"} :
           /\ prsOp' = <<"getModule", name>>
           /\ prsOut' = CommentParser_getModule(prsReflection, name)
    /\ prsPc' = "done"
    /\ UNCHANGED <<prsReflection, slugVars, sbVars, grpVars, renderVars,
                   utilVars, pgVars>>

\* a caller of CommentParser.getFunctionDescription(reflection)
CallGetFunctionDescription ==
    /\ prsPc = "ready"
    /\ prsOp' = <<"getFunctionDescription">>
    /\ prsOut' = CommentParser_getFunctionDescription(prsReflection)
    /\ prsPc' = "done"
    /\ UNCHANGED <<prsReflection, slugVars, sbVars, grpVars, renderVars,
                   utilVars, pgVars>>

\* a caller of CommentParser.getFullDescription(reflection)
CallGetFullDescription ==
    /\ prsPc = "ready"
    /\ prsOp' = <<"getFullDescription">>
    /\ prsOut' = CommentParser_getFullDescription(prsReflection)
    /\ prsPc' = "done"
    /\ UNCHANGED <<prsReflection, slugVars, sbVars, grpVars, renderVars,
                   utilVars, pgVars>>

ParserNext ==
    CallGetModule \/ CallGetFunctionDescription \/ CallGetFullDescription

ParserSpec == ParserInit /\ [][ParserNext]_vars

-----------------------------------------------------------------------------
(* CustomPagination (packages/ui, components/Pagination/Pagination.tsx)    *)
(*                                                                         *)
(* The component is drawn from the props currentPage and totalPages; the   *)
(* owner keeps currentPage and sets it to the page onPageChange is called  *)
(* with, as the Demo of docs/components/pagination.md does.                *)

\* the '...' entry of rangeWithDots; page numbers are 1 and above
Dots == 0

\* getVisiblePages() of a render with the props currentPage and totalPages
getVisiblePages(currentPage, totalPages) ==
    LET delta == 2
        Max(a, b) == IF a >= b THEN a ELSE b
        Min(a, b) == IF a <= b THEN a ELSE b
        first == Max(2, currentPage - delta)
        last == Min(totalPages - 1, currentPage + delta)
        range == [i \in 1..(last - first + 1) |-> first + i - 1]
        left == IF currentPage - delta > 2 THEN <<1, Dots>> ELSE <<1>>
        right == IF currentPage + delta < totalPages - 1
                 THEN <<Dots, totalPages>>
                 ELSE <<totalPages>>
    IN  left \o range \o right

\* onPageChange(page) in the owner, and the render that follows
onPageChange(page) ==
    /\ pgCurrentPage' = page
    /\ pgVisiblePages' = getVisiblePages(page, pgTotalPages)
    /\ UNCHANGED pgTotalPages

PaginationInit ==
    /\ pgTotalPages \in 1..MaxPages
    /\ pgCurrentPage \in 1..pgTotalPages
    /\ pgVisiblePages = getVisiblePages(pgCurrentPage, pgTotalPages)
    /\ pgLastClick = "mount"
    /\ SlugIdle
    /\ SidebarIdle
    /\ GroupIdle
    /\ RenderIdle
    /\ UtilIdle
    /\ ParserIdle

\* PaginationPrevious: disabled on page 1
ClickPrevious ==
    /\ pgLastClick # "off"
    /\ pgCurrentPage # 1
    /\ onPageChange(IF pgCurrentPage - 1 >= 1 THEN pgCurrentPage - 1 ELSE 1)
    /\ pgLastClick' = "previous"
    /\ UNCHANGED <<slugVars, sbVars, grpVars, renderVars, utilVars, prsVars>>

\* PaginationNext: disabled on the last page
ClickNext ==
    /\ pgLastClick # "off"
    /\ pgCurrentPage # pgTotalPages
    /\ onPageChange(IF pgCurrentPage + 1 <= pgTotalPages
                    THEN pgCurrentPage + 1
                    ELSE pgTotalPages)
    /\ pgLastClick' = "next"
    /\ UNCHANGED <<slugVars, sbVars, grpVars, renderVars, utilVars, prsVars>>

\* one of the PaginationLink buttons of the last render
ClickPage ==
    /\ pgLastClick # "off"
    /\ \E i \in 1..Len(pgVisiblePages) :
           /\ pgVisiblePages[i] # Dots
           /\ onPageChange(pgVisiblePages[i])
    /\ pgLastClick' = "page"
    /\ UNCHANGED <<slugVars, sbVars, grpVars, renderVars, utilVars, prsVars>>

PaginationSpecNext == ClickPrevious \/ ClickNext \/ ClickPage

PaginationSpec == PaginationInit /\ [][PaginationSpecNext]_vars

-----------------------------------------------------------------------------
(* Properties of the activity monitor, checked under MonitorSpec *)

\* at most one countdown is pending; it belongs to the timer the monitor
\* holds, the monitor is active, and it is due timeout after the last check(),
\* a moment not yet passed; after a check() a countdown is pending
OneFullCountdown ==
    /\ Cardinality(monPending) <= 1
    /\ \A t \in monPending :
          /\ t.id = monTimer
          /\ monIsActive
          /\ t.due = monLastActivityTime + monTimeout
          /\ monNow <= t.due
    /\ monPhase = "running" => monPending # {}

\* onTimeout is called when exactly timeout has passed since the last
\* check(), and the call leaves no countdown behind; a check() sets a
\* countdown of the full timeout, the only one pending
TimeoutOnTime ==
    /\ onTimeoutCalls' # onTimeoutCalls =>
          /\ onTimeoutCalls' = onTimeoutCalls + 1
          /\ monNow - monLastActivityTime = monTimeout
          /\ monPending' = {}
    /\ monNextId' # monNextId =>
          /\ monLastActivityTime' = monNow
          /\ monPending' = {[id |-> monTimer', due |-> monNow + monTimeout]}
          /\ onTimeoutCalls' = onTimeoutCalls

TimerIds == 1..MaxTimers

IsPending(id) == \E t \in monPending : t.id = id

\* every countdown ends: its timer runs or a later call clears it
CountdownsEnd == \A id \in TimerIds : IsPending(id) ~> ~IsPending(id)

\* C12: once check() or start() has activated the monitor, onTimeout is
\* called once, when timeout has passed since the most recent check() and
\* not before; every check() clears the pending countdown and starts a full
\* one
ActivityTimeout == []OneFullCountdown /\ [][TimeoutOnTime]_vars /\ CountdownsEnd

\* onTimeout has been called once, timeout after a check() that came after
\* the monitor was started
ActivityTimeoutWitness ==
    /\ monLastOp = "timeout"
    /\ onTimeoutCalls = 1
    /\ onStartCalls = 1
    /\ onStopCalls = 0
    /\ onActivityCalls >= 2
    /\ monLastActivityTime > Epoch
    /\ monNow - monLastActivityTime = monTimeout

\* after stop(), until the next check(), the state is the idle one and no
\* countdown is pending
StoppedIsIdle ==
    monPhase = "stopped" =>
        /\ getState = [isActive |-> FALSE, remainingTime |-> 0, elapsedTime |-> 0]
        /\ monPending = {}

\* onTimeout is not called on a stopped monitor; stop() calls onStop once
\* on an active monitor and not at all on an inactive one
StopCallsOnStop ==
    /\ monPhase = "stopped" => onTimeoutCalls' = onTimeoutCalls
    /\ (monLastOp' = "stop" /\ monNow' = monNow) =>
          onStopCalls' = IF monIsActive THEN onStopCalls + 1 ELSE onStopCalls

\* C13: right after stop() getState() is {isActive: false, remainingTime: 0,
\* elapsedTime: 0} and onTimeout is not called until the next start() or
\* check(); a stop() on an active monitor calls onStop once, a stop() on an
\* inactive monitor does not call it
ActivityStop == []StoppedIsIdle /\ [][StopCallsOnStop]_vars

\* an active monitor was stopped and more than its timeout has passed
ActivityStopWitness ==
    /\ monLastOp = "stop"
    /\ onStopCalls = 1
    /\ onStartCalls = 1
    /\ onTimeoutCalls = 0
    /\ monNow > monLastActivityTime + monTimeout

\* a paused monitor is active and has no countdown pending
PausedKeepsActive == monPhase = "paused" => monIsActive /\ monPending = {}

\* onTimeout is not called on a paused monitor; resume() on it sets a
\* countdown of the full timeout, the only one pending; the onTimeout that
\* follows a resume() comes once, timeout after the resume()
ResumeRestarts ==
    /\ monPhase = "paused" => onTimeoutCalls' = onTimeoutCalls
    /\ (monPhase = "paused" /\ monLastOp' = "resume" /\ monNow' = monNow) =>
          /\ monIsActive'
          /\ monLastActivityTime' = monNow
          /\ monPending' = {[id |-> monTimer', due |-> monNow + monTimeout]}
    /\ (monLastOp = "resume" /\ onTimeoutCalls' # onTimeoutCalls) =>
          /\ onTimeoutCalls' = onTimeoutCalls + 1
          /\ monNow = monLastActivityTime + monTimeout
          /\ monPending' = {}

\* the countdown a resume() started ends
ResumedCountdownEnds == (monLastOp = "resume" /\ monPending # {}) ~> (monLastOp # "resume")

\* C14: after pause() on an active monitor onTimeout is not called however
\* much time passes and isActive stays true; a following resume() starts a
\* full countdown, so that onTimeout is called once, timeout after the resume()
ActivityPauseResume ==
    []PausedKeepsActive /\ [][ResumeRestarts]_vars /\ ResumedCountdownEnds

\* a monitor paused for longer than its timeout: onTimeout was not called
ActivityPauseResumeWitness ==
    /\ monPhase = "paused"
    /\ monIsActive
    /\ onTimeoutCalls = 0
    /\ monNow > monLastActivityTime + monTimeout

\* C16 - onStart at most once: over the lifetime of one monitor, whatever
\* the sequence of start, check, pause, resume and stop calls and of
\* timeouts, onStart is called at most once.
OnStartAtMostOnce == onStartCalls <= 1

\* C17 - onStop whenever monitoring ends: every step that ends the
\* monitoring, a stop() on an active monitor or the timeout, calls onStop.
OnStopWheneverMonitoringEnds ==
    [][(monIsActive /\ ~monIsActive') => onStopCalls' = onStopCalls + 1]_vars

-----------------------------------------------------------------------------
(* Properties of the Timer, checked under TimerSpec *)

\* C15 as stated: whatever the sequence of start() and stop() calls, once
\* stop() has returned no callback handed to start() is called until
\* start() is called again.
TimerStopSilencesAsStated == [][tmrStopped => tmrCalls' = tmrCalls]_vars

\* C15, amended: when start() has never been called on a Timer whose last
\* interval was not stopped, once stop() has returned no callback handed to
\* start() is called until start() is called again
TimerStopSilences ==
    [][(tmrStopped /\ ~tmrRestarted) => tmrCalls' = tmrCalls]_vars

\* a Timer started twice with a stop() in between has called a callback and
\* is stopped, and time has passed since the last start()
TimerStopSilencesWitness ==
    /\ tmrStopped
    /\ ~tmrRestarted
    /\ tmrNextId >= 3
    /\ tmrIntervals = {}
    /\ \E c \in Callbacks : tmrCalls[c] >= 1
    /\ tmrNow = MaxTime

-----------------------------------------------------------------------------
(* Properties of SlugGenerator, checked under SlugSpec *)

IsSlugChar(c) == c \in LowerLetters \cup Digits \cup {"-"}

\* the name has no basic-Latin letter or digit once diacritics are stripped
NoLatinAlnum(name) ==
    \A i \in 1..Len(stripMarks(normalizeNFD(name))) :
        stripMarks(normalizeNFD(name))[i]
            \notin LowerLetters \cup UpperLetters \cup Digits

Contains(s, c) == \E i \in 1..Len(s) : s[i] = c

\* C6 - slug alphabet: whatever the name (empty, symbols only, non-Latin,
\* over-long), the slug is non-empty, is made of [a-z0-9-] only and is at
\* most 50 + 1 + 8 characters long.
SlugAlphabet ==
    slugPc = "done" =>
        /\ slugOut # <<>>
        /\ \A i \in 1..Len(slugOut) : IsSlugChar(slugOut[i])
        /\ Len(slugOut) <= MAX_LENGTH + 1 + MIN_HASH_LENGTH

\* an over-long name was slugged into prefix, hyphen and hash
SlugAlphabetWitness ==
    /\ slugPc = "done"
    /\ Len(toBasicLatin(slugName)) > MAX_LENGTH
    /\ Len(slugOut) = 10 + 1 + MIN_HASH_LENGTH

-----------------------------------------------------------------------------
(* Properties of SidebarGenerator, checked under SidebarSpec *)

\* position of node x in the list l
IndexOf(l, x) == CHOOSE i \in 1..Len(l) : l[i] = x

\* nodes whose names compare equal stand in the same relative order in l, m
TieOrderKept(l, m) ==
    \A x \in Range(l), y \in Range(l) :
        localeCompare(x.name, y.name) = 0 =>
            (IndexOf(l, x) < IndexOf(l, y) <=> IndexOf(m, x) < IndexOf(m, y))

\* C10 as stated - sidebar sort stability: every permutation of the input
\* nodes gives the same sidebar tree, also when several nodes share a name.
SidebarOrderIndependentAsStated ==
    sbPc = "done" => sbOut = sbOutPermuted

\* C10 amended - every permutation of the input nodes that keeps the relative
\* order of the nodes whose names compare equal gives the same sidebar tree.
SidebarOrderIndependent ==
    (sbPc = "done" /\ TieOrderKept(sbChildren, sbPermuted)) =>
        sbOut = sbOutPermuted

\* three nodes, two of them with the same name, were given in two orders
SidebarOrderIndependentWitness ==
    /\ sbPc = "done"
    /\ Len(sbChildren) = 3
    /\ sbChildren # sbPermuted
    /\ TieOrderKept(sbChildren, sbPermuted)
    /\ \E i, j \in 1..3 : i # j /\ sbChildren[i].name = sbChildren[j].name
    /\ sbOut # <<>>

-----------------------------------------------------------------------------
(* Properties of the grouping, checked under GroupSpec *)

\* nodes of one group and of equal kind stand in the same relative order
KindOrderKept(l, m) ==
    \A x \in Range(l), y \in Range(l) :
        (moduleKey(x) = moduleKey(y) /\ x.kind = y.kind) =>
            (IndexOf(l, x) < IndexOf(l, y) <=> IndexOf(m, x) < IndexOf(m, y))

\* C9 as stated - grouping order independence: permuting the nodes of a
\* module group in the input leaves the group's file name and text unchanged.
GroupOrderIndependentAsStated ==
    grpPc = "done" => grpOut = grpOutPermuted

\* C9 amended - permuting the nodes of a module group in a way that keeps the
\* relative order of its nodes of equal kind leaves the group's file name and
\* text unchanged.
GroupOrderIndependent ==
    (grpPc = "done" /\ KindOrderKept(grpChildren, grpPermuted)) =>
        grpOut = grpOutPermuted

\* a group of three nodes, two of one kind, was rendered from two orders
GroupOrderIndependentWitness ==
    /\ grpPc = "done"
    /\ grpChildren # grpPermuted
    /\ KindOrderKept(grpChildren, grpPermuted)
    /\ \E o \in grpOut : Len(o.content.doc) = 3
    /\ \E i, j \in 1..Len(grpChildren) :
          /\ i # j
          /\ grpChildren[i].kind = grpChildren[j].kind
          /\ moduleKey(grpChildren[i]) = moduleKey(grpChildren[j])

-----------------------------------------------------------------------------
(* Properties of renderProject, checked under RenderSpec *)

AllOk(l) == \A i \in 1..Len(l) : l[i].ok

Failed(ops) == \E i \in 1..Len(log) : log[i].op \in ops /\ ~log[i].ok

\* the file renderProject writes for the group of node r of project proj
groupFileOf(proj, r) ==
    LET map == groupNodes(proj.children, <<>>)
        i == CHOOSE j \in 1..Len(map) : map[j].key = moduleKey(r)
    IN  getFilename(sortByKind(map[i].value)[1])

\* an incremental run that met no failure has ended, after a first one
SecondIncrementalRunDone ==
    /\ run = "second"
    /\ pc = "done"
    /\ incremental
    /\ AllOk(log)
    /\ AllOk(prevLog)

\* C1 - incremental idempotence: the second of two incremental runs over the
\* same nodes writes no group file and deletes no file.
IncrementalIdempotence ==
    (SecondIncrementalRunDone /\ project = prevProject) =>
        written = {} /\ deleted = {}

\* C2 - incremental convergence: when the second incremental run has one node
\* less and no surviving node is in that node's group, the node's file is
\* gone and the file of every surviving group is there with the content it
\* had after the first run.
IncrementalConvergence ==
    \A r \in Range(prevProject.children) \ Range(project.children) :
        (/\ SecondIncrementalRunDone
         /\ \A q \in Range(project.children) :
               /\ moduleKey(q) # moduleKey(r)
               /\ groupFileOf(project, q) # getFilename(r)) =>
            /\ getFilename(r) \notin DOMAIN files
            /\ \A q \in Range(project.children) :
                  /\ groupFileOf(project, q) \in DOMAIN files
                  /\ groupFileOf(project, q) \in DOMAIN prevFiles
                  /\ files[groupFileOf(project, q)]
                        = prevFiles[groupFileOf(project, q)]

\* C3 - full-mode destructiveness: after a successful run in full mode every
\* file of the output directory was written by this run; whatever was there
\* before and was not written again is gone.
FullModeDestructive ==
    (pc = "done" /\ ~incremental /\ result = "resolved") =>
        /\ DOMAIN files \subseteq written \cup {IndexName}
        /\ \A f \in DOMAIN preFiles :
              f \notin written \cup {IndexName} => f \notin DOMAIN files
        /\ \A f \in DOMAIN files : files[f] # Stale

\* a full-mode run over a directory with a stray file has ended
FullModeDestructiveWitness ==
    /\ pc = "done"
    /\ ~incremental
    /\ result = "resolved"
    /\ StrayName \in DOMAIN preFiles
    /\ StrayName \notin DOMAIN files
    /\ written # {}

FatalOps == {"rm", "mkdir", "write", "index", "sidebar"}

\* C4 - fatal-error propagation: once removing or creating the directory,
\* writing a group file, the index or the sidebar has failed, renderProject
\* is rejected, the failed call is the last one of the run (no later stage,
\* no pruning), and the files written before are left as they are.
FatalErrorPropagation ==
    /\ [](Failed(FatalOps) =>
            /\ result = "rejected"
            /\ ~log[Len(log)].ok
            /\ \A i \in 1..Len(log) - 1 : log[i].ok
            /\ \A i \in 1..Len(log) : log[i].op \notin {"readdir", "unlink"}
            /\ written \subseteq DOMAIN files)
    /\ [][result' = "rejected" =>
            /\ files' = files
            /\ sidebarFile' = sidebarFile
            /\ (result = "rejected" => log' = log)]_vars

\* a write failed after another group file had been written
FatalErrorPropagationWitness ==
    /\ result = "rejected"
    /\ Failed({"write"})
    /\ written # {}
    /\ written \subseteq DOMAIN files

\* C5 - pruning failure isolation: when listing the directory or deleting a
\* stale file fails in the prune stage, renderProject still resolves.
PruneFailureIsolated ==
    Failed({"readdir", "unlink"}) => pc = "done" /\ result = "resolved"

\* an unlink failed after another stale file had been deleted
PruneFailureIsolatedWitness ==
    /\ Failed({"unlink"})
    /\ deleted # {}
    /\ incremental
    /\ result = "resolved"

\* the run has passed the mkdir that prepares the output directory
DirectoryPrepared == pc \in {"group", "render", "index", "sidebar", "readdir", "unlink", "done"}

\* the run has not reached cleanupUnusedFiles
BeforePrune == pc \in {"mkdir", "group", "render", "index", "sidebar", "readdir", "failed"}

\* C11: in incremental mode renderProject never removes the output
\* directory: no rm is issued, the directory exists once the mkdir is over,
\* and until the group, index and sidebar writes are over no file is deleted:
\* every file the directory held at the start of the run is still there
IncrementalNeverDeletesUpFront ==
    (incremental /\ run # "none") =>
        /\ \A i \in 1..Len(log) : log[i].op # "rm"
        /\ DirectoryPrepared => dirExists
        /\ BeforePrune => /\ deleted = {}
                          /\ DOMAIN preFiles \subseteq DOMAIN files

\* an incremental run on a directory that held files has written its groups,
\* index and sidebar and stands before the prune
IncrementalNeverDeletesUpFrontWitness ==
    /\ incremental
    /\ pc = "readdir"
    /\ written # {}
    /\ StrayName \in DOMAIN preFiles
    /\ StrayName \in DOMAIN files

\* the place of an operation in the order of the stages
StageRank(op) ==
    CASE op = "rm" -> 1
      [] op = "mkdir" -> 2
      [] op = "group" -> 3
      [] op = "write" -> 4
      [] op = "index" -> 5
      [] op = "sidebar" -> 6
      [] op = "readdir" -> 7
      [] op = "unlink" -> 8

\* the operations a stage issues once per group or once per file
RepeatedOps == {"write", "unlink"}

InLog(op) == \E i \in 1..Len(log) : log[i].op = op

CountInLog(op) == Cardinality({i \in 1..Len(log) : log[i].op = op})

\* the operations of the run so far are in stage order, each stage is entered
\* once, a failed operation is the last one of the run, every stage follows
\* the completed stage before it, and the prune happens in incremental mode only
StagesInOrder ==
    /\ \A i, j \in 1..Len(log) :
          i < j => \/ StageRank(log[i].op) < StageRank(log[j].op)
                   \/ log[i].op = log[j].op /\ log[i].op \in RepeatedOps
    /\ \A i \in 1..Len(log) : i < Len(log) => log[i].ok
    /\ InLog("rm") => ~incremental
    /\ InLog("group") => InLog("mkdir")
    /\ InLog("write") => InLog("group")
    /\ InLog("index") => InLog("group") /\ CountInLog("write") = Len(groups)
    /\ InLog("sidebar") => InLog("index")
    /\ InLog("readdir") => InLog("sidebar") /\ incremental
    /\ InLog("unlink") => InLog("readdir")
    /\ CountInLog("write") = gi - 1
    /\ gi - 1 <= Len(groups)
    /\ (pc = "done" /\ result = "resolved") =>
          /\ InLog("sidebar")
          /\ incremental => InLog("readdir")

\* one step of the run issues at most one operation
OneOperationPerStep ==
    \/ log' = log
    \/ log' = <<>>
    \/ Len(log') = Len(log) + 1 /\ SubSeq(log', 1, Len(log)) = log

\* C18: in every run of renderProject the stages happen in the order prepare
\* the output directory, group the nodes, render the groups one after
\* another, write the index, write the sidebar, prune (incremental mode
\* only), done; one operation is issued at a time and none is retried
RunStageOrdering == []StagesInOrder /\ [][OneOperationPerStep]_vars

\* an incremental run over two groups has gone through every stage
RunStageOrderingWitness ==
    /\ incremental
    /\ pc = "done"
    /\ result = "resolved"
    /\ Len(groups) >= 2
    /\ CountInLog("write") = Len(groups)
    /\ InLog("unlink")
    /\ AllOk(log)

\* the groups renderReflections has been called for in this run
ProcessedGroups == IF pc = "group" \/ run = "none" THEN {} ELSE 1..(gi - 1)

\* C19 - claim before write: the file name of every group rendered in the
\* run is in processedFiles from the moment its write is attempted, so the
\* prune finds in processedFiles the name of every group of the run.
ClaimBeforeWrite ==
    \A i \in ProcessedGroups :
        getFilename(groups[i].value[1]) \in processedFiles

\* a document of the output directory that the prune may delete
Orphan(f) == endsWithMd(f) /\ f # IndexName /\ f \notin processedFiles

\* the prune of an incremental run has ended without a failure
PruneCompleted ==
    /\ incremental
    /\ pc = "done"
    /\ result = "resolved"
    /\ InLog("readdir")
    /\ AllOk(log)

DistinctFilePerGroup ==
    \A i, j \in ProcessedGroups :
        i # j => getFilename(groups[i].value[1]) # getFilename(groups[j].value[1])


\* the n-th '/'-separated segment of a module path, <<>> when there is none
segment(m, n) == IF Len(m) >= n THEN <<m[n]>> ELSE <<>>

\* renderProject has just filled the Map and not yet rendered a group
JustGrouped == pc = "render" /\ gi = 1

InSameGroup(x, y) ==
    \E i \in 1..Len(groups) :
        x \in Range(groups[i].value) /\ y \in Range(groups[i].value)

\* every node is in a group and every group lists its nodes in input order
GroupsKeepInputOrder ==
    /\ \A x \in Range(project.children) : InSameGroup(x, x)
    /\ \A i \in 1..Len(groups) :
           groups[i].value =
               SelectSeq(project.children,
                         LAMBDA r : r \in Range(groups[i].value))

\* C22 as stated - grouping key: two nodes are in the same module group if
\* and only if the first '/'-separated segment of their getModule value is the
\* same, and each group lists its nodes in input order.
GroupingKeyAsStated ==
    JustGrouped =>
        /\ GroupsKeepInputOrder
        /\ \A x, y \in Range(project.children) :
               InSameGroup(x, y) <=>
                   segment(getModule(x), 1) = segment(getModule(y), 1)

\* C22 amended - grouping key: two nodes are in the same module group if and
\* only if the second '/'-separated segment of their getModule value is the
\* same (nodes whose module has no second segment, or that have no module, all
\* fall into one default bucket), and each group lists its nodes in input
\* order.
GroupingKey ==
    JustGrouped =>
        /\ GroupsKeepInputOrder
        /\ \A x, y \in Range(project.children) :
               InSameGroup(x, y) <=>
                   segment(getModule(x), 2) = segment(getModule(y), 2)

\* grouped: two nodes of different first segment share a group, two nodes of
\* the same first segment do not, and a one-segment module is in the default
\* bucket
GroupingKeyWitness ==
    /\ JustGrouped
    /\ \E x, y \in Range(project.children) :
           /\ InSameGroup(x, y)
           /\ segment(getModule(x), 1) # segment(getModule(y), 1)
           /\ segment(getModule(x), 1) # <<>>
           /\ segment(getModule(y), 1) # <<>>
    /\ \E x, y \in Range(project.children) :
           /\ ~InSameGroup(x, y)
           /\ segment(getModule(x), 1) = segment(getModule(y), 1)

\* the leaf items of a sidebar tree: the direct items of every category and
\* the items of every subgroup block
SidebarLeaves(tree) ==
    UNION {UNION {IF "items" \in DOMAIN tree[i].items[j]
                  THEN Range(tree[i].items[j].items)
                  ELSE {tree[i].items[j]} : j \in 1..Len(tree[i].items)}
           : i \in 1..Len(tree)}

\* the nodes that generate() turns into items
ShownNodes(children) ==
    {r \in Range(children) :
        r.kind \in {"Interface", "TypeAlias"} => r.example}

\* the base URL of the links
DocsBase == <<"/", "d", "o", "c", "s", "/">>

\* C23 - sidebar links match generated files: the links of the sidebar leaf
\* items are the base URL followed by the slug that generateSlug produces for
\* the name of the node, for every name.
SidebarLinksMatchSlug ==
    sbPc = "done" =>
        {l.link : l \in SidebarLeaves(sbOut)} =
            {DocsBase \o generateSlug(r.name) : r \in ShownNodes(sbChildren)}

-----------------------------------------------------------------------------
(* Properties of CustomPagination, checked under PaginationSpec *)

\* the page numbers of visiblePages, in the order they are drawn
VisibleNumbers == SelectSeq(pgVisiblePages, LAMBDA p : p # Dots)

\* C30 - pagination page list: the list of getVisiblePages starts with page 1,
\* ends with page totalPages, contains currentPage, and its page numbers are
\* strictly increasing, so that no page number is listed twice.
VisiblePagesWellFormed ==
    pgLastClick # "off" =>
        /\ pgVisiblePages # <<>>
        /\ pgVisiblePages[1] = 1
        /\ pgVisiblePages[Len(pgVisiblePages)] = pgTotalPages
        /\ \E i \in 1..Len(VisibleNumbers) : VisibleNumbers[i] = pgCurrentPage
        /\ \A i \in 1..(Len(VisibleNumbers) - 1) :
               VisibleNumbers[i] < VisibleNumbers[i + 1]

-----------------------------------------------------------------------------
(* Properties of CommentParser, checked under ParserSpec *)

\* C25 - CommentParser never throws: whatever is absent or empty in the node
\* (comment, signatures, tag lists, the content or text of a tag), getModule,
\* getFunctionDescription and getFullDescription end with a string or null.
ParserNeverThrows ==
    prsPc = "done" => prsOut.t \in {"string", "null"}

\* the value extractModuleFromComment gives for the i-th signature
signatureMatch(i) ==
    extractModuleFromComment(prsReflection.signatures[1][i].comment, prsOp[2])

\* the signatures whose annotations have a match
MatchingSignatures ==
    IF prsReflection.signatures = None THEN {}
    ELSE {i \in 1..Len(prsReflection.signatures[1]) : Truthy(signatureMatch(i))}

FirstMatchingSignature ==
    CHOOSE i \in MatchingSignatures : \A j \in MatchingSignatures : i <= j

\* the value extractModuleFromComment gives for the comment of the node
ownMatch == extractModuleFromComment(prsReflection.comment, prsOp[2])

\* getModule was called and returned
GetModuleReturned ==
    /\ prsPc = "done"
    /\ prsOp[1] = "getModule"
    /\ prsOut # TypeError

\* C24 as stated - getModule search order: the match of the node's own
\* annotations is returned whenever there is one, the call signatures are
\* consulted in declaration order (first match wins) only when the node's own
\* annotations have no match, and null is returned when nothing matches.
GetModuleSearchOrderAsStated ==
    GetModuleReturned =>
        prsOut = IF Truthy(ownMatch) THEN ownMatch
                 ELSE IF MatchingSignatures # {}
                 THEN signatureMatch(FirstMatchingSignature)
                 ELSE Null

\* C24 amended - getModule search order: the match of the first call
\* signature (in declaration order) that has one is returned whenever there
\* is one, the node's own annotations are consulted only when no signature
\* has a match, and null is returned when nothing matches.
GetModuleSearchOrder ==
    GetModuleReturned =>
        prsOut = IF MatchingSignatures # {}
                 THEN signatureMatch(FirstMatchingSignature)
                 ELSE IF Truthy(ownMatch) THEN ownMatch
                 ELSE Null

\* getModule returned the match of the first of two signatures with
\* different matches, for a node whose own annotations have a third match
GetModuleSearchOrderWitness ==
    /\ GetModuleReturned
    /\ Truthy(ownMatch)
    /\ Cardinality(MatchingSignatures) = 2
    /\ signatureMatch(1) # signatureMatch(2)
    /\ ownMatch \notin {signatureMatch(1), signatureMatch(2)}
    /\ prsOut = signatureMatch(1)

\* where the leaf items of a sidebar tree stand: <<i, j, 0>> is the j-th
\* entry of category i when it is a leaf, <<i, j, k>> the k-th item of the
\* subgroup block that is the j-th entry of category i
LeafPositions(tree) ==
    UNION {UNION {IF "items" \in DOMAIN tree[i].items[j]
                  THEN {<<i, j, k>> : k \in 1..Len(tree[i].items[j].items)}
                  ELSE {<<i, j, 0>>} : j \in 1..Len(tree[i].items)}
           : i \in 1..Len(tree)}

LeafAt(tree, p) ==
    IF p[3] = 0 THEN tree[p[1]].items[p[2]]
    ELSE tree[p[1]].items[p[2]].items[p[3]]

\* the leaf item that stands for node r
LeafFor(r) == [text |-> OrElse(r.func, r.name), link |-> getLink(r)]

\* the rule of the filter
IsShown(r) == r.kind \in {"Interface", "TypeAlias"} => r.example

IndexLinks ==
    LET doc == files[IndexName].index
    IN  UNION {{doc[i].links[j].link : j \in 1..Len(doc[i].links)}
               : i \in 1..Len(doc)}

\* C27 - index links resolve: after a successful run every link of index.md
\* names a document file that is in the output directory at the end of the
\* run.
IndexLinksResolve ==
    (pc = "done" /\ result = "resolved") =>
        \A link \in IndexLinks : (link \o MdExt) \in DOMAIN files

-----------------------------------------------------------------------------
(* Slug idempotence, checked under SlugSpec *)

\* C28 - slug idempotence: generateSlug applied to a slug it returned gives
\* that slug again, generateSlug(generateSlug(s)) = generateSlug(s).
SlugIdempotent ==
    slugPc = "again" => slugOut = slugName

\* generateSlug was called again with a slug made of a prefix, a hyphen and
\* a hash
SlugIdempotentWitness ==
    /\ slugPc = "again"
    /\ Len(slugName) > MIN_HASH_LENGTH + 1
    /\ slugName[Len(slugName) - MIN_HASH_LENGTH] = "-"
    /\ slugOut = slugName

-----------------------------------------------------------------------------
(* State consistency of the activity monitor, checked under MonitorSpec *)

\* C29 - activity monitor state consistency: in every reachable state
\* getState().remainingTime is not negative, and remainingTime and
\* elapsedTime are both 0 whenever isActive is false.
MonitorStateConsistent ==
    monPhase # "off" =>
        /\ getState.remainingTime >= 0
        /\ ~getState.isActive =>
               getState.remainingTime = 0 /\ getState.elapsedTime = 0
====
